---- MODULE Spec2Model ----
(***************************************************************************)
(* A model of the Befunge-93 interpreter of this repository:               *)
(*   src/src/befunge/playfield.rs    the playfield (grid, program counter) *)
(*   src/src/befunge/interpreter.rs  the fetch/decode/execute loop         *)
(*                                                                         *)
(* Characters are modelled by their Unicode code point.  A stack value is  *)
(* an i64, written as the record [hi, lo] that stands for hi * 2^63 + lo:  *)
(* hi = 0 for a value of small magnitude, hi = -1 for a value lo above     *)
(* i64::MIN and hi = 1 for a value -lo below 2^63 (so i64::MAX is          *)
(* [hi |-> 1, lo |-> -1]).  Values further than ValueSpan from 0, i64::MIN  *)
(* and i64::MAX are outside the model.                                     *)
(***************************************************************************)
EXTENDS Integers, Sequences, FiniteSets, TLC

VARIABLES
    invocation,         \* how far cli() came before the interpreter, or
                        \* "Library" when Interpreter::new is called directly
    source,             \* the source text Interpreter::new was given
    position_arg,       \* the Option<Coord> Interpreter::new was given
    direction_arg,      \* the Option<Direction> Interpreter::new was given
    overflow_checks,    \* whether the build panics on arithmetic overflow
    constructed,        \* whether Interpreter::new returned an interpreter
    playfield,          \* Interpreter.playfield
    stack,              \* Interpreter.stack
    output_handle,      \* the bytes written to Interpreter.output_handle
    input_handle,       \* the text Interpreter.input_handle has yet to yield
    mode,               \* Interpreter.mode
    result              \* how new() ended, then "Running" once execute()'s loop
                        \* has gone round, then how execute() ended

vars == <<invocation, source, position_arg, direction_arg, overflow_checks, constructed,
          playfield, stack, output_handle, input_handle, mode, result>>

(***************************************************************************)
(* Bounds of the model.                                                    *)
(***************************************************************************)
\* The deepest stack and the longest output a behaviour is followed to.
MaxStack == 16
MaxOutput == 24
\* The distance from 0, i64::MIN and i64::MAX up to which a value is modelled.
ValueSpan == 300
\* The initial positions tried are (-1 .. MaxInitCoord) x (-1 .. MaxInitCoord).
MaxInitCoord == 2

(***************************************************************************)
(* Characters.                                                             *)
(***************************************************************************)
Printable ==
    << " ", "!", "\"", "#", "$", "%", "&", "'", "(", ")", "*", "+", ",", "-",
       ".", "/", "0", "1", "2", "3", "4", "5", "6", "7", "8", "9", ":", ";",
       "<", "=", ">", "?", "@", "A", "B", "C", "D", "E", "F", "G", "H", "I",
       "J", "K", "L", "M", "N", "O", "P", "Q", "R", "S", "T", "U", "V", "W",
       "X", "Y", "Z", "[", "\\", "]", "^", "_", "GRAVE", "a", "b", "c", "d", "e",
       "f", "g", "h", "i", "j", "k", "l", "m", "n", "o", "p", "q", "r", "s",
       "t", "u", "v", "w", "x", "y", "z", "{", "|", "}", "~" >>

\* The code point of a character given as a one-character string; the grave
\* accent (the backtick instruction) is written "GRAVE".
Ord(c) ==
    CASE c = "\n" -> 10
      [] c = "\r" -> 13
      [] c = "\t" -> 9
      [] OTHER -> 31 + (CHOOSE i \in 1..Len(Printable) : Printable[i] = c)

\* A text given as a tuple of one-character strings, as code points.
Text(t) == [i \in 1..Len(t) |-> Ord(t[i])]

LF == Ord("\n")
CR == Ord("\r")
SPACE == Ord(" ")
DQUOTE == Ord("\"")
ZERO == Ord("0")
NINE == Ord("9")
PLUS == Ord("+")
MINUS == Ord("-")
\* U+00E1, a character of two UTF-8 bytes (interpreter.rs, test_special_characters)
A_ACUTE == 128 + 97

\* The instruction characters (interpreter.rs lines 103, 107 and 111).
C_NOT == Ord("!")
C_HIF == Ord("_")
C_VIF == Ord("|")
C_DUP == Ord(":")
C_POP == Ord("$")
C_OUTNUM == Ord(".")
C_OUTCHAR == Ord(",")
C_ADD == Ord("+")
C_SUB == Ord("-")
C_MUL == Ord("*")
C_DIV == Ord("/")
C_REM == Ord("%")
C_GT == Ord("GRAVE")
C_SWAP == Ord("\\")
C_GET == Ord("g")
C_NOP == Ord(" ")
C_RIGHT == Ord(">")
C_LEFT == Ord("<")
C_UP == Ord("^")
C_DOWN == Ord("v")
C_RANDOM == Ord("?")
C_STRING == Ord("\"")
C_BRIDGE == Ord("#")
C_PUT == Ord("p")
C_INNUM == Ord("&")
C_INCHAR == Ord("~")

UnaryOps == {C_NOT, C_HIF, C_VIF, C_DUP, C_POP, C_OUTNUM, C_OUTCHAR}
BinaryOps == {C_ADD, C_SUB, C_MUL, C_DIV, C_REM, C_GT,
              C_SWAP, C_GET}
OtherOps == {C_NOP, C_RIGHT, C_LEFT, C_UP, C_DOWN, C_RANDOM,
             C_STRING, C_BRIDGE, C_PUT, C_INNUM, C_INCHAR}
Digits == ZERO..NINE
AT == Ord("@")

\* The number of bytes of a character's UTF-8 encoding (str::len counts bytes).
Utf8Len(c) == IF c < 128 THEN 1 ELSE IF c < 2048 THEN 2 ELSE IF c < 65536 THEN 3 ELSE 4

RECURSIVE ByteLen(_)
ByteLen(s) == IF s = << >> THEN 0 ELSE Utf8Len(Head(s)) + ByteLen(Tail(s))

Max(a, b) == IF a > b THEN a ELSE b
Abs(n) == IF n < 0 THEN -n ELSE n

RECURSIVE Spaces(_)
Spaces(n) == IF n <= 0 THEN << >> ELSE <<SPACE>> \o Spaces(n - 1)

(***************************************************************************)
(* i64 values (the stack's element type, interpreter.rs line 43).          *)
(***************************************************************************)
I64(n) == [hi |-> 0, lo |-> n]
I64_MIN == [hi |-> -1, lo |-> 0]
I64_MAX == [hi |-> 1, lo |-> -1]

\* Stands for an i64 the model does not represent.
Unmodelled == [hi |-> 2, lo |-> 0]

\* The i64 values the model represents.
InModel(v) ==
    \/ v.hi = 0 /\ Abs(v.lo) <= ValueSpan
    \/ v.hi = -1 /\ v.lo >= 0 /\ v.lo <= ValueSpan
    \/ v.hi = 1 /\ v.lo < 0 /\ -v.lo <= ValueSpan

\* Whether the integer hi * 2^63 + lo (|lo| far below 2^63) is an i64.
InRange(hi, lo) == hi = 0 \/ (hi = -1 /\ lo >= 0) \/ (hi = 1 /\ lo < 0)

\* The i64 congruent to hi * 2^63 + lo modulo 2^64 (two's complement wrapping).
Wrap(hi, lo) ==
    IF hi % 2 = 0 THEN [hi |-> 0, lo |-> lo]
    ELSE IF lo < 0 THEN [hi |-> 1, lo |-> lo] ELSE [hi |-> -1, lo |-> lo]

\* A mutant of Greater: equal values compare as greater.
Greater_OrEqual(b, a) == b.hi > a.hi \/ (b.hi = a.hi /\ b.lo >= a.lo)

\* b > a on i64 values
Greater(b, a) == b.hi > a.hi \/ (b.hi = a.hi /\ b.lo > a.lo)
IsNegative(v) == v.hi < 0 \/ (v.hi = 0 /\ v.lo < 0)

\* The distance of an i64 of large magnitude from magnitude 2^63.
Below(v) == Abs(v.lo)

\* A mutant of AddI64: the operands are subtracted.
AddI64_Subtracting(b, a) ==
    [ovf |-> ~InRange(b.hi - a.hi, b.lo - a.lo), v |-> Wrap(b.hi - a.hi, b.lo - a.lo)]

\* b + a, b - a, b * a: the wrapped result, and whether the exact one overflows.
\* Rust panics on overflow when built with overflow checks (the debug
\* profile) and wraps otherwise.
AddI64(b, a) ==
    [ovf |-> ~InRange(b.hi + a.hi, b.lo + a.lo), v |-> Wrap(b.hi + a.hi, b.lo + a.lo)]

SubI64(b, a) ==
    [ovf |-> ~InRange(b.hi - a.hi, b.lo - a.lo), v |-> Wrap(b.hi - a.hi, b.lo - a.lo)]

\* A mutant of MulI64: the sum.
MulI64_Adding(b, a) ==
    [ovf |-> ~InRange(b.hi + a.hi, b.lo + a.lo), v |-> Wrap(b.hi + a.hi, b.lo + a.lo)]

\* (b.hi*2^63 + b.lo) * (a.hi*2^63 + a.lo)
\*     = b.hi*a.hi*2^126 + (b.hi*a.lo + a.hi*b.lo)*2^63 + b.lo*a.lo
MulI64(b, a) ==
    LET q == b.hi * a.hi
        m == b.hi * a.lo + a.hi * b.lo
        p == b.lo * a.lo
    IN  [ovf |-> q # 0 \/ Abs(m) > 1 \/ ~InRange(m, p), v |-> Wrap(m, p)]

\* Rust's integer division truncates toward zero; its remainder has the sign
\* of the dividend.
TruncDiv(b, a) ==
    LET q == Abs(b) \div Abs(a)
    IN  IF (b < 0) = (a < 0) THEN q ELSE -q

TruncRem(b, a) ==
    LET r == Abs(b) % Abs(a)
    IN  IF b < 0 THEN -r ELSE r

RECURSIVE Pow2Mod(_, _)
Pow2Mod(e, n) == IF e = 0 THEN 1 % n ELSE (2 * Pow2Mod(e - 1, n)) % n

Sign(v) == IF IsNegative(v) THEN -1 ELSE 1

\* A mutant of DivI64: the quotient of small values is rounded down.
DivI64_Flooring(b, a) ==
    IF a.hi = 0 /\ b.hi = 0
    THEN [ovf |-> FALSE,
          v |-> I64(IF TruncRem(b.lo, a.lo) # 0 /\ (b.lo < 0) # (a.lo < 0)
                    THEN TruncDiv(b.lo, a.lo) - 1 ELSE TruncDiv(b.lo, a.lo))]
    ELSE IF a.hi = 0 THEN
        IF a.lo = 1 THEN [ovf |-> FALSE, v |-> b]
        ELSE IF a.lo = -1 THEN
            [ovf |-> b = I64_MIN, v |-> Wrap(-b.hi, -b.lo)]
        ELSE [ovf |-> FALSE, v |-> Unmodelled]
    ELSE IF b.hi = 0 THEN [ovf |-> FALSE, v |-> I64(0)]
    ELSE IF Below(b) <= Below(a) THEN [ovf |-> FALSE, v |-> I64(Sign(b) * Sign(a))]
    ELSE [ovf |-> FALSE, v |-> I64(0)]

\* b / a for a # 0: ovf for i64::MIN / -1, which panics in every build.
\* A quotient of large magnitude that is not near 2^63 is outside the model.
DivI64(b, a) ==
    IF a.hi = 0 /\ b.hi = 0 THEN [ovf |-> FALSE, v |-> I64(TruncDiv(b.lo, a.lo))]
    ELSE IF a.hi = 0 THEN
        IF a.lo = 1 THEN [ovf |-> FALSE, v |-> b]
        ELSE IF a.lo = -1 THEN
            [ovf |-> b = I64_MIN, v |-> Wrap(-b.hi, -b.lo)]
        ELSE [ovf |-> FALSE, v |-> Unmodelled]
    ELSE IF b.hi = 0 THEN [ovf |-> FALSE, v |-> I64(0)]
    ELSE IF Below(b) <= Below(a) THEN [ovf |-> FALSE, v |-> I64(Sign(b) * Sign(a))]
    ELSE [ovf |-> FALSE, v |-> I64(0)]

\* b % a for a # 0: ovf for i64::MIN % -1, which panics in every build.
RemI64(b, a) ==
    IF a.hi = 0 /\ b.hi = 0 THEN [ovf |-> FALSE, v |-> I64(TruncRem(b.lo, a.lo))]
    ELSE IF a.hi = 0 THEN
        [ovf |-> b = I64_MIN /\ a.lo = -1,
         v |-> I64(Sign(b) * ((Pow2Mod(63, Abs(a.lo)) + Abs(a.lo)
                                  - (Below(b) % Abs(a.lo))) % Abs(a.lo)))]
    ELSE IF b.hi = 0 THEN [ovf |-> FALSE, v |-> b]
    ELSE IF Below(b) <= Below(a)
        THEN [ovf |-> FALSE, v |-> I64(Sign(b) * (Below(a) - Below(b)))]
    ELSE [ovf |-> FALSE, v |-> b]

\* The decimal digits of a natural number, as characters.
RECURSIVE NatDigits(_)
NatDigits(n) ==
    IF n < 10 THEN <<ZERO + n>> ELSE NatDigits(n \div 10) \o <<ZERO + (n % 10)>>

\* n as exactly k digits (leading zeros)
RECURSIVE FixedDigits(_, _)
FixedDigits(n, k) ==
    IF k = 0 THEN << >> ELSE FixedDigits(n \div 10, k - 1) \o <<ZERO + (n % 10)>>

\* 2^63 = 9223372036854775808: its first fourteen digits, and the number its
\* last five digits make.
TwoTo63Head == Text(<<"9","2","2","3","3","7","2","0","3","6","8","5","4","7">>)
TwoTo63Tail == 75000 + 808

\* Display for i64 ("{}"): the decimal text, with a minus sign when negative.
Display(v) ==
    IF v.hi = 0
    THEN (IF v.lo < 0 THEN <<MINUS>> ELSE << >>) \o NatDigits(Abs(v.lo))
    ELSE (IF v.hi < 0 THEN <<MINUS>> ELSE << >>)
            \o TwoTo63Head \o FixedDigits(TwoTo63Tail - Below(v), 5)

(***************************************************************************)
(* Text: str::lines, str::trim, str::parse, BufRead::read_line.            *)
(***************************************************************************)
\* The index of the first line feed of s, 0 when it has none.
RECURSIVE FirstLF(_, _)
FirstLF(s, i) ==
    IF i > Len(s) THEN 0 ELSE IF s[i] = LF THEN i ELSE FirstLF(s, i + 1)

\* A line without the carriage return of a "\r\n" ending.
StripCR(l) ==
    IF Len(l) > 0 /\ l[Len(l)] = CR THEN SubSeq(l, 1, Len(l) - 1) ELSE l

\* str::lines: the text split at line feeds; a final line needs no line
\* feed, and nothing follows a final line feed.
RECURSIVE Lines(_)
Lines(s) ==
    IF s = << >> THEN << >>
    ELSE LET i == FirstLF(s, 1)
         IN  IF i = 0 THEN <<s>>
             ELSE <<StripCR(SubSeq(s, 1, i - 1))>> \o Lines(SubSeq(s, i + 1, Len(s)))

\* char::is_whitespace (the White_Space property), over the Latin-1 range
IsWhitespace(c) == c \in (9..13) \cup {32, 133, 160}

RECURSIVE TrimStart(_)
TrimStart(s) ==
    IF s # << >> /\ IsWhitespace(Head(s)) THEN TrimStart(Tail(s)) ELSE s

RECURSIVE TrimEnd(_)
TrimEnd(s) ==
    IF s # << >> /\ IsWhitespace(s[Len(s)])
    THEN TrimEnd(SubSeq(s, 1, Len(s) - 1)) ELSE s

\* str::trim
Trim(s) == TrimEnd(TrimStart(s))

\* A mutant of ReadLine: all that is left of the input is read.
ReadLine_ToEnd(inp) == [line |-> inp, rest |-> << >>]

\* A mutant of ReadLine: the line is read and left in the input.
ReadLine_Peeking(inp) ==
    LET i == FirstLF(inp, 1)
    IN  IF i = 0 THEN [line |-> inp, rest |-> inp]
        ELSE [line |-> SubSeq(inp, 1, i), rest |-> inp]

\* BufRead::read_line: the bytes up to and including the next line feed, or
\* all that is left; nothing at the end of input.
ReadLine(inp) ==
    LET i == FirstLF(inp, 1)
    IN  IF i = 0 THEN [line |-> inp, rest |-> << >>]
        ELSE [line |-> SubSeq(inp, 1, i), rest |-> SubSeq(inp, i + 1, Len(inp))]

RECURSIVE StripZeros(_)
StripZeros(d) == IF d # << >> /\ Head(d) = ZERO THEN StripZeros(Tail(d)) ELSE d

RECURSIVE DigitsValue(_)
DigitsValue(d) ==
    IF d = << >> THEN 0 ELSE 10 * DigitsValue(SubSeq(d, 1, Len(d) - 1)) + (d[Len(d)] - ZERO)

\* Lexicographic order on two digit strings of one length.
RECURSIVE DigitsLess(_, _)
DigitsLess(d, e) ==
    IF d = << >> THEN FALSE
    ELSE Head(d) < Head(e) \/ (Head(d) = Head(e) /\ DigitsLess(Tail(d), Tail(e)))

\* str::parse::<i64>: an optional sign and one or more decimal digits, the
\* value an i64.
ParseI64(t) ==
    LET signed == t # << >> /\ Head(t) \in {PLUS, MINUS}
        neg == t # << >> /\ Head(t) = MINUS
        d == IF signed THEN Tail(t) ELSE t
        z == StripZeros(d)
        tail == DigitsValue(SubSeq(z, 15, 19))
    IN  IF d = << >> \/ \E i \in 1..Len(d) : d[i] \notin Digits
        THEN [ok |-> FALSE, v |-> I64(0)]
        ELSE IF Len(z) <= 9
        THEN [ok |-> TRUE, v |-> I64(IF neg THEN -DigitsValue(z) ELSE DigitsValue(z))]
        ELSE IF Len(z) < 19 \/ (Len(z) = 19 /\ DigitsLess(SubSeq(z, 1, 14), TwoTo63Head))
        THEN [ok |-> TRUE, v |-> Unmodelled]
        ELSE IF Len(z) > 19 \/ SubSeq(z, 1, 14) # TwoTo63Head
        THEN [ok |-> FALSE, v |-> I64(0)]
        ELSE IF neg
        THEN [ok |-> tail <= TwoTo63Tail, v |-> [hi |-> -1, lo |-> TwoTo63Tail - tail]]
        ELSE [ok |-> tail < TwoTo63Tail, v |-> [hi |-> 1, lo |-> tail - TwoTo63Tail]]

\* str::parse::<char>: exactly one character
ParseChar(t) == [ok |-> Len(t) = 1, v |-> IF Len(t) = 1 THEN I64(t[1]) ELSE I64(0)]

(***************************************************************************)
(* The playfield (playfield.rs).  Option<T> is << >> for None and <<v>>    *)
(* for Some(v).                                                            *)
(***************************************************************************)
Directions == {"Up", "Down", "Left", "Right"}

Coord(cx, cy) == [x |-> cx, y |-> cy]

UnwrapOr(opt, default) == IF opt = << >> THEN default ELSE opt[1]

\* format!("{:<width$}", line): the line, then spaces up to width characters
PadRight(line, width) == line \o Spaces(width - Len(line))

RECURSIVE MaxByteLen(_)
MaxByteLen(ls) == IF ls = << >> THEN 0 ELSE Max(ByteLen(Head(ls)), MaxByteLen(Tail(ls)))

\* playfield.rs line 49: the longest line's len(), 0 without lines
PlayfieldWidth(code) == MaxByteLen(Lines(code))

\* playfield.rs lines 53-56
CodeMap(code) ==
    [i \in 1..Len(Lines(code)) |-> PadRight(Lines(code)[i], PlayfieldWidth(code))]

\* A mutant of InitialPositionRejected: the first column and row past the
\* grid are rejected too.
InitialPositionRejected_Strict(position, width, height) ==
    (position.x >= width \/ position.y >= height) \/ (position.x < 0 \/ position.y < 0)

\* playfield.rs lines 61-62: the test that rejects an initial position
InitialPositionRejected(position, width, height) ==
    (position.x > width \/ position.y > height) \/ (position.x < 0 \/ position.y < 0)

\* Playfield::new
PlayfieldNew(code, program_counter_position, program_counter_direction) ==
    LET width == PlayfieldWidth(code)
        height == Len(CodeMap(code))
    IN  IF InitialPositionRejected(program_counter_position, width, height)
        THEN [res |-> "BoundsError",
              playfield |-> [code_map |-> << >>, dimensions |-> Coord(0, 0),
                             program_counter_position |-> program_counter_position,
                             program_counter_direction |-> program_counter_direction]]
        ELSE [res |-> "Ok",
              playfield |-> [code_map |-> CodeMap(code),
                             dimensions |-> Coord(width, height),
                             program_counter_position |-> program_counter_position,
                             program_counter_direction |-> program_counter_direction]]

\* Whether code_map[y][x] exists (indexing a Vec out of range panics).
Indexable(code_map, x, y) ==
    /\ y >= 0 /\ y < Len(code_map)
    /\ x >= 0 /\ x < Len(code_map[y + 1])

Cell(code_map, x, y) == code_map[y + 1][x + 1]

\* Playfield::get_next_character
get_next_character(pf) ==
    LET pos == pf.program_counter_position
    IN  IF Indexable(pf.code_map, pos.x, pos.y)
        THEN [res |-> "Ok", ch |-> Cell(pf.code_map, pos.x, pos.y)]
        ELSE [res |-> "Panic", ch |-> 0]

\* playfield.rs lines 88-89 and 101-102: the test that rejects a position of
\* g and p; the coordinates are i64 values
PositionRejected(position, dimensions) ==
    (IsNegative(position.x) \/ IsNegative(position.y))
        \/ (Greater(position.x, I64(dimensions.x)) \/ Greater(position.y, I64(dimensions.y)))

\* A mutant of set_character_at: the row is indexed by x and the column by y.
set_character_at_Transposed(pf, position, value) ==
    IF PositionRejected(position, pf.dimensions)
    THEN [res |-> "BoundsError", playfield |-> pf]
    ELSE IF ~Indexable(pf.code_map, position.y.lo, position.x.lo)
    THEN [res |-> "Panic", playfield |-> pf]
    ELSE [res |-> "Ok",
          playfield |-> [pf EXCEPT !.code_map[position.x.lo + 1][position.y.lo + 1] = value]]

\* Playfield::set_character_at
set_character_at(pf, position, value) ==
    IF PositionRejected(position, pf.dimensions)
    THEN [res |-> "BoundsError", playfield |-> pf]
    ELSE IF ~Indexable(pf.code_map, position.x.lo, position.y.lo)
    THEN [res |-> "Panic", playfield |-> pf]
    ELSE [res |-> "Ok",
          playfield |-> [pf EXCEPT !.code_map[position.y.lo + 1][position.x.lo + 1] = value]]

\* A mutant of get_character_at: the character is taken from row 0.
get_character_at_RowZero(pf, position) ==
    IF PositionRejected(position, pf.dimensions)
    THEN [res |-> "BoundsError", ch |-> 0]
    ELSE IF ~Indexable(pf.code_map, position.x.lo, 0)
    THEN [res |-> "Panic", ch |-> 0]
    ELSE [res |-> "Ok", ch |-> Cell(pf.code_map, position.x.lo, 0)]

\* Playfield::get_character_at
get_character_at(pf, position) ==
    IF PositionRejected(position, pf.dimensions)
    THEN [res |-> "BoundsError", ch |-> 0]
    ELSE IF ~Indexable(pf.code_map, position.x.lo, position.y.lo)
    THEN [res |-> "Panic", ch |-> 0]
    ELSE [res |-> "Ok", ch |-> Cell(pf.code_map, position.x.lo, position.y.lo)]

\* A mutant of NextPosition: moving left from column 0 lands on column width.
NextPosition_LeftPastEnd(pos, dir, dimensions) ==
    CASE dir = "Up" ->
            Coord(pos.x, IF pos.y = 0 THEN dimensions.y - 1 ELSE pos.y - 1)
      [] dir = "Down" -> Coord(pos.x, (pos.y + 1) % dimensions.y)
      [] dir = "Left" ->
            Coord(IF pos.x = 0 THEN dimensions.x ELSE pos.x - 1, pos.y)
      [] dir = "Right" -> Coord((pos.x + 1) % dimensions.x, pos.y)

\* The position update_program_counter computes (playfield.rs lines 113-136).
NextPosition(pos, dir, dimensions) ==
    CASE dir = "Up" ->
            Coord(pos.x, IF pos.y = 0 THEN dimensions.y - 1 ELSE pos.y - 1)
      [] dir = "Down" -> Coord(pos.x, (pos.y + 1) % dimensions.y)
      [] dir = "Left" ->
            Coord(IF pos.x = 0 THEN dimensions.x - 1 ELSE pos.x - 1, pos.y)
      [] dir = "Right" -> Coord((pos.x + 1) % dimensions.x, pos.y)

\* Playfield::update_program_counter
update_program_counter(pf) ==
    [pf EXCEPT !.program_counter_position =
        NextPosition(pf.program_counter_position, pf.program_counter_direction,
                     pf.dimensions)]

(***************************************************************************)
(* The interpreter (interpreter.rs).  An operation takes the interpreter   *)
(* as the record self and returns it changed, with res: "Ok", the error,   *)
(* or "Panic".                                                             *)
(***************************************************************************)
Modes == {"String", "Command", "Bridge"}

Ret(self, res) == [self |-> self, res |-> res]

\* A mutant of Pop: an empty stack yields 1.
Pop_YieldingOne(s) ==
    IF s = << >> THEN [v |-> I64(1), s |-> << >>]
    ELSE [v |-> s[Len(s)], s |-> SubSeq(s, 1, Len(s) - 1)]

\* self.stack.pop().unwrap_or(0)
Pop(s) ==
    IF s = << >> THEN [v |-> I64(0), s |-> << >>]
    ELSE [v |-> s[Len(s)], s |-> SubSeq(s, 1, Len(s) - 1)]

Push(self, v) == [self EXCEPT !.stack = Append(@, v)]

\* The UTF-8 bytes write!("{}", c) sends for a character below U+0800.
Utf8(c) == IF c < 128 THEN <<c>> ELSE <<192 + (c \div 64), 128 + (c % 64)>>

\* A mutant of Write: the bytes are put before what was written earlier.
Write_Prepending(self, bytes) == [self EXCEPT !.output_handle = bytes \o @]

Write(self, bytes) == [self EXCEPT !.output_handle = @ \o bytes]

\* A mutant of convert_int_to_char: 256 is accepted.
convert_int_to_char_To256(value) ==
    IF IsNegative(value) \/ Greater(value, I64(256))
    THEN [res |-> "RangeError", ch |-> 0]
    ELSE [res |-> "Ok", ch |-> value.lo]

\* convert_int_to_char; char::from_u32 accepts every value of 0..255
convert_int_to_char(value) ==
    IF IsNegative(value) \/ Greater(value, I64(255))
    THEN [res |-> "RangeError", ch |-> 0]
    ELSE [res |-> "Ok", ch |-> value.lo]

BoolI64(b) == I64(IF b THEN 1 ELSE 0)

\* The match of run_unary_operation (interpreter.rs lines 142-169), on the
\* interpreter s1 that value was popped from.
UnaryMatch(s1, operation, value) ==
        CASE operation = C_NOT -> Ret(Push(s1, BoolI64(value = I64(0))), "Ok")
          [] operation = C_HIF ->
                Ret([s1 EXCEPT !.playfield.program_counter_direction =
                        IF value = I64(0) THEN "Right" ELSE "Left"], "Ok")
          [] operation = C_VIF ->
                Ret([s1 EXCEPT !.playfield.program_counter_direction =
                        IF value = I64(0) THEN "Down" ELSE "Up"], "Ok")
          [] operation = C_DUP -> Ret(Push(Push(s1, value), value), "Ok")
          [] operation = C_POP -> Ret(s1, "Ok")
          [] operation = C_OUTNUM -> Ret(Write(s1, Display(value) \o <<SPACE>>), "Ok")
          [] OTHER ->
                LET c == convert_int_to_char(value)
                IN  IF c.res # "Ok" THEN Ret(s1, c.res)
                    ELSE Ret(Write(s1, Utf8(c.ch)), "Ok")

\* A mutant of run_unary_operation: '|' turns up on 0 and down otherwise.
run_unary_operation_VifSwapped(self, operation) ==
    LET p == Pop(self.stack)
        s1 == [self EXCEPT !.stack = p.s]
    IN  IF operation = C_VIF
        THEN Ret([s1 EXCEPT !.playfield.program_counter_direction =
                    IF p.v = I64(0) THEN "Up" ELSE "Down"], "Ok")
        ELSE UnaryMatch(s1, operation, p.v)

\* A mutant of run_unary_operation: '!' takes every value that is not
\* positive for 0.
run_unary_operation_NotOfSign(self, operation) ==
    LET p == Pop(self.stack)
        s1 == [self EXCEPT !.stack = p.s]
    IN  IF operation = C_NOT
        THEN Ret(Push(s1, BoolI64(p.v = I64(0) \/ IsNegative(p.v))), "Ok")
        ELSE UnaryMatch(s1, operation, p.v)

\* A mutant of run_unary_operation: ':' copies the top only when there is
\* one, and the empty stack becomes [0].
run_unary_operation_DupOfTop(self, operation) ==
    LET p == Pop(self.stack)
        s1 == [self EXCEPT !.stack = p.s]
    IN  IF operation = C_DUP /\ self.stack = << >>
        THEN Ret(Push(s1, I64(0)), "Ok")
        ELSE UnaryMatch(s1, operation, p.v)

\* A mutant of run_unary_operation: '.' writes the number without the space.
run_unary_operation_OutNumBare(self, operation) ==
    LET p == Pop(self.stack)
        s1 == [self EXCEPT !.stack = p.s]
    IN  IF operation = C_OUTNUM THEN Ret(Write(s1, Display(p.v)), "Ok")
        ELSE UnaryMatch(s1, operation, p.v)

\* Interpreter::run_unary_operation
run_unary_operation(self, operation) ==
    LET p == Pop(self.stack)
    IN  UnaryMatch([self EXCEPT !.stack = p.s], operation, p.v)

\* The end of an arithmetic instruction: i64::MIN / -1 and i64::MIN % -1
\* panic in every build, an overflowing + - * only with overflow checks.
Arith(self, operation, r) ==
    IF r.ovf /\ (overflow_checks \/ operation \in {C_DIV, C_REM})
    THEN Ret(self, "Panic")
    ELSE Ret(Push(self, r.v), "Ok")

\* The match of run_binary_operation (interpreter.rs lines 185-207), on the
\* interpreter s2 that a, then b, were popped from.
BinaryMatch(s2, operation, a, b) ==
        CASE operation = C_ADD -> Arith(s2, operation, AddI64(b, a))
          [] operation = C_SUB -> Arith(s2, operation, SubI64(b, a))
          [] operation = C_MUL -> Arith(s2, operation, MulI64(b, a))
          [] operation = C_DIV ->
                IF a = I64(0) THEN Ret(s2, "DivisionError")
                ELSE Arith(s2, operation, DivI64(b, a))
          [] operation = C_REM ->
                IF a = I64(0) THEN Ret(s2, "DivisionError")
                ELSE Arith(s2, operation, RemI64(b, a))
          [] operation = C_GT -> Ret(Push(s2, BoolI64(Greater(b, a))), "Ok")
          [] operation = C_SWAP -> Ret(Push(Push(s2, a), b), "Ok")
          [] OTHER ->
                LET g == get_character_at(s2.playfield, [y |-> a, x |-> b])
                IN  IF g.res # "Ok" THEN Ret(s2, g.res)
                    ELSE Ret(Push(s2, I64(g.ch)), "Ok")

\* A mutant of run_binary_operation: the value popped first is taken as b.
run_binary_operation_Swapped(self, operation) ==
    LET pa == Pop(self.stack)
        pb == Pop(pa.s)
    IN  BinaryMatch([self EXCEPT !.stack = pb.s], operation, pb.v, pa.v)

\* A mutant of run_binary_operation: '\' on a stack of one value puts the
\* missing operand below it.
run_binary_operation_SwapShort(self, operation) ==
    LET pa == Pop(self.stack)
        pb == Pop(pa.s)
        s2 == [self EXCEPT !.stack = pb.s]
    IN  IF operation = C_SWAP /\ Len(self.stack) = 1
        THEN Ret(Push(Push(s2, pb.v), pa.v), "Ok")
        ELSE BinaryMatch(s2, operation, pa.v, pb.v)

\* Interpreter::run_binary_operation
run_binary_operation(self, operation) ==
    LET pa == Pop(self.stack)
        pb == Pop(pa.s)
    IN  BinaryMatch([self EXCEPT !.stack = pb.s], operation, pa.v, pb.v)

\* A mutant of RandomDirection that never turns right.
RandomDirection_NeverRight(rnd) ==
    CASE rnd = 0 -> "Up" [] rnd = 1 -> "Down" [] OTHER -> "Left"

\* thread_rng().gen_range(0, 4), given as rnd
RandomDirection(rnd) ==
    CASE rnd = 0 -> "Up" [] rnd = 1 -> "Down" [] rnd = 2 -> "Left" [] OTHER -> "Right"

SetDirection(self, dir) == [self EXCEPT !.playfield.program_counter_direction = dir]

\* Interpreter::run_other_operation
run_other_operation(self, operation, rnd) ==
    CASE operation = C_NOP -> Ret(self, "Ok")
      [] operation = C_RIGHT -> Ret(SetDirection(self, "Right"), "Ok")
      [] operation = C_LEFT -> Ret(SetDirection(self, "Left"), "Ok")
      [] operation = C_UP -> Ret(SetDirection(self, "Up"), "Ok")
      [] operation = C_DOWN -> Ret(SetDirection(self, "Down"), "Ok")
      [] operation = C_RANDOM -> Ret(SetDirection(self, RandomDirection(rnd)), "Ok")
      [] operation = C_STRING -> Ret([self EXCEPT !.mode = "String"], "Ok")
      [] operation = C_BRIDGE -> Ret([self EXCEPT !.mode = "Bridge"], "Ok")
      [] operation = C_PUT ->
            LET py == Pop(self.stack)
                px == Pop(py.s)
                pv == Pop(px.s)
                s3 == [self EXCEPT !.stack = pv.s]
                c == convert_int_to_char(pv.v)
                w == set_character_at(s3.playfield, [y |-> py.v, x |-> px.v], c.ch)
            IN  IF c.res # "Ok" THEN Ret(s3, c.res)
                ELSE IF w.res # "Ok" THEN Ret(s3, w.res)
                ELSE Ret([s3 EXCEPT !.playfield = w.playfield], "Ok")
      [] operation = C_INNUM ->
            LET rl == ReadLine(self.input_handle)
                s1 == [self EXCEPT !.input_handle = rl.rest]
                n == ParseI64(Trim(rl.line))
            IN  IF n.ok THEN Ret(Push(s1, n.v), "Ok") ELSE Ret(s1, "ParseError")
      [] OTHER ->
            LET rl == ReadLine(self.input_handle)
                s1 == [self EXCEPT !.input_handle = rl.rest]
                c == ParseChar(Trim(rl.line))
            IN  IF c.ok THEN Ret(Push(s1, c.v), "Ok") ELSE Ret(s1, "ParseError")

\* A mutant of CommandDispatch: a character that is no instruction does
\* nothing.
CommandDispatch_Lenient(self, ch, rnd) ==
    IF ch \in Digits THEN Ret(Push(self, I64(ch - ZERO)), "Ok")
    ELSE IF ch \in UnaryOps THEN run_unary_operation(self, ch)
    ELSE IF ch \in BinaryOps THEN run_binary_operation(self, ch)
    ELSE IF ch \in OtherOps THEN run_other_operation(self, ch, rnd)
    ELSE IF ch = AT THEN Ret(self, "Break")
    ELSE Ret(self, "Ok")

\* The match of execute() on the character in command mode (interpreter.rs
\* lines 100-122); res "Break" for '@'.
CommandDispatch(self, ch, rnd) ==
    IF ch \in Digits THEN Ret(Push(self, I64(ch - ZERO)), "Ok")
    ELSE IF ch \in UnaryOps THEN run_unary_operation(self, ch)
    ELSE IF ch \in BinaryOps THEN run_binary_operation(self, ch)
    ELSE IF ch \in OtherOps THEN run_other_operation(self, ch, rnd)
    ELSE IF ch = AT THEN Ret(self, "Break")
    ELSE Ret(self, "DecodeError")

\* A mutant of Dispatch: every character is dispatched as in command mode.
Dispatch_IgnoringMode(self, ch, rnd) == CommandDispatch(self, ch, rnd)

\* A mutant of Dispatch: bridge mode executes the cell it should skip.
Dispatch_BridgeExecutes(self, ch, rnd) ==
    CASE self.mode = "Bridge" ->
            LET d == CommandDispatch(self, ch, rnd)
            IN  Ret([d.self EXCEPT !.mode = "Command"],
                    IF d.res = "Break" THEN "Ok" ELSE d.res)
      [] self.mode = "String" ->
            IF ch = DQUOTE THEN Ret([self EXCEPT !.mode = "Command"], "Ok")
            ELSE Ret(Push(self, I64(ch)), "Ok")
      [] OTHER -> CommandDispatch(self, ch, rnd)

\* A mutant of Dispatch: string mode pushes the first UTF-8 byte of the
\* character instead of its code point.
Dispatch_StringPushesByte(self, ch, rnd) ==
    CASE self.mode = "Bridge" -> Ret([self EXCEPT !.mode = "Command"], "Ok")
      [] self.mode = "String" ->
            IF ch = DQUOTE THEN Ret([self EXCEPT !.mode = "Command"], "Ok")
            ELSE Ret(Push(self, I64(Utf8(ch)[1])), "Ok")
      [] OTHER -> CommandDispatch(self, ch, rnd)

\* A mutant of Dispatch: '#' is obeyed in string mode too.
Dispatch_StringObeysBridge(self, ch, rnd) ==
    CASE self.mode = "Bridge" -> Ret([self EXCEPT !.mode = "Command"], "Ok")
      [] self.mode = "String" ->
            IF ch = DQUOTE THEN Ret([self EXCEPT !.mode = "Command"], "Ok")
            ELSE IF ch = C_BRIDGE THEN Ret([self EXCEPT !.mode = "Bridge"], "Ok")
            ELSE Ret(Push(self, I64(ch)), "Ok")
      [] OTHER -> CommandDispatch(self, ch, rnd)

\* The match of execute() on the mode (interpreter.rs lines 92-123).
Dispatch(self, ch, rnd) ==
    CASE self.mode = "Bridge" -> Ret([self EXCEPT !.mode = "Command"], "Ok")
      [] self.mode = "String" ->
            IF ch = DQUOTE THEN Ret([self EXCEPT !.mode = "Command"], "Ok")
            ELSE Ret(Push(self, I64(ch)), "Ok")
      [] OTHER -> CommandDispatch(self, ch, rnd)

\* A mutant of Iteration: the position advances in the direction the
\* iteration began with.
Iteration_AdvancingFirst(self, rnd) ==
    LET f == get_next_character(self.playfield)
        d == Dispatch(self, f.ch, rnd)
        before == self.playfield
    IN  IF f.res # "Ok" THEN Ret(self, "Panic")
        ELSE IF d.res = "Break" THEN Ret(d.self, "Ok")
        ELSE IF d.res # "Ok" THEN d
        ELSE Ret([d.self EXCEPT !.playfield.program_counter_position =
                    NextPosition(before.program_counter_position,
                                 before.program_counter_direction, before.dimensions)],
                 "Running")

\* A mutant of Iteration: a failed instruction is passed over and the loop
\* goes on.
Iteration_SwallowingFailure(self, rnd) ==
    LET f == get_next_character(self.playfield)
        d == Dispatch(self, f.ch, rnd)
    IN  IF f.res # "Ok" THEN Ret(self, "Panic")
        ELSE IF d.res = "Break" THEN Ret(d.self, "Ok")
        ELSE Ret([d.self EXCEPT !.playfield = update_program_counter(@)], "Running")

\* A mutant of Iteration: the position is advanced after a failed
\* instruction too.
Iteration_AdvancingOnFailure(self, rnd) ==
    LET f == get_next_character(self.playfield)
        d == Dispatch(self, f.ch, rnd)
    IN  IF f.res # "Ok" THEN Ret(self, "Panic")
        ELSE IF d.res = "Break" THEN Ret(d.self, "Ok")
        ELSE Ret([d.self EXCEPT !.playfield = update_program_counter(@)],
                 IF d.res # "Ok" THEN d.res ELSE "Running")

\* One iteration of execute()'s loop on a playfield that is not empty:
\* res "Running" when the loop goes on, "Ok" when execute() returns Ok(()).
Iteration(self, rnd) ==
    LET f == get_next_character(self.playfield)
        d == Dispatch(self, f.ch, rnd)
    IN  IF f.res # "Ok" THEN Ret(self, "Panic")
        ELSE IF d.res = "Break" THEN Ret(d.self, "Ok")
        ELSE IF d.res # "Ok" THEN d
        ELSE Ret([d.self EXCEPT !.playfield = update_program_counter(@)], "Running")

(***************************************************************************)
(* The programs and inputs the behaviours start from.                      *)
(***************************************************************************)
\* interpreter.rs line 439
HelloWorld ==
    Text(<<"6","4","+","\"","!","d","l","r","o","W"," ",",","o","l","l","e","H",
           "\"",">",":","#",",","_","@">>)

\* interpreter.rs line 446
Factorial ==
    Text(<<"&",">",":","1","-",":","v"," ","v"," ","*","_","$",".","@","\n",
           " ","^"," "," "," "," ","_","$",">","\\",":","^">>)

\* interpreter.rs line 323
Basic == Text(<<"5",":",".",",","@">>)

\* playfield.rs lines 165, 210, 225, 289
Empty == << >>
OneLongerRow == Text(<<"l","\n","w","w","\n","k">>)
OneLongerColumn == Text(<<"l","d","d","\n","w","w","e","\n","g">>)
TwoByTwo == Text(<<"l","w","\n","g","g">>)

\* interpreter.rs line 614: a character of two UTF-8 bytes in a string
SpecialCharacters == <<DQUOTE, A_ACUTE, DQUOTE, C_OUTCHAR, AT>>

\* Lines that end in "\r\n", an empty line, a final line feed.
BlankLines == Text(<<"1","\r","\n","\n"," ","@","\n">>)
OnlyLineFeed == <<LF>>

\* Walks the border of a 3 x 2 grid in string mode, bridge mode and back.
Loop == Text(<<"v","#","<","\n",">","\"","^">>)
\* Each of the four directions of '?' ends at another '@' or facing another way.
Random == Text(<<"?","@","\n","@"," ">>)

SmallSources ==
    {Basic, Empty, OneLongerRow, OneLongerColumn, TwoByTwo, SpecialCharacters,
     BlankLines, OnlyLineFeed, Loop, Random}

\* The initial positions and directions tried on the small sources.
PositionArgs ==
    {<< >>, <<Coord(13333, 0)>>}
        \cup {<<Coord(px, py)>> : px \in -1..MaxInitCoord, py \in -1..MaxInitCoord}
DirectionArgs == {<< >>} \cup {<<d>> : d \in Directions}

\* The values the input lines hold.
InputValues == {I64_MIN, I64(-7), I64(-1), I64(0), I64(2), I64_MAX}

\* One input line for each value of the tuple vs.
RECURSIVE InputOf(_)
InputOf(vs) ==
    IF vs = << >> THEN << >> ELSE Display(Head(vs)) \o <<LF>> \o InputOf(Tail(vs))

\* n times '&'
Amps(n) == [i \in 1..n |-> C_INNUM]

\* The characters tried as the instruction after the operands: every
\* instruction, and a character that is none.
Instructions == UnaryOps \cup BinaryOps \cup OtherOps \cup {Ord("7"), AT, Ord("x")}

Case(c, i, p, d) == [code |-> c, input |-> i, position |-> p, direction |-> d]

\* '@' in string mode, in bridge mode and in command mode.
AtSigns == Text(<<"\"","@","\"","#","@","@">>)

\* The test programs, from the default start.
ProgramCases ==
    {Case(HelloWorld, << >>, << >>, << >>), Case(AtSigns, << >>, << >>, << >>)}
        \cup {Case(Factorial, InputOf(<<I64(n)>>), << >>, << >>) : n \in 0..5}

\* The operands the unit tests push as digits (interpreter.rs lines 497-780).
DigitOperands ==
    {Text(<<"5">>), Text(<<"0">>), Text(<<"9">>), Text(<<"5","5">>),
     Text(<<"5","7">>), Text(<<"5","6">>), Text(<<"6","2">>), Text(<<"7","2">>),
     Text(<<"6","0">>), Text(<<"6","4">>), Text(<<"6","5">>), Text(<<"6","6">>),
     Text(<<"9","6","5">>)}

\* Digits, then one instruction, then '@'.
DigitCases ==
    {Case(ds \o <<op, AT>>, << >>, << >>, << >>) :
        ds \in DigitOperands, op \in UnaryOps \cup BinaryOps}

\* p on a grid of 5 x 2 cells: the value, x and y are read from the input.
Put == Text(<<"&","&","&","p","@","\n","a","b">>)
PutValues == {I64(-1), I64(0), I64(65), I64(255), I64(256)}
PutXs == {I64(-1), I64(0), I64(4), I64(5), I64(6)}
PutYs == {I64(-1), I64(0), I64(1), I64(2), I64(3)}
PutCases ==
    {Case(Put, InputOf(<<v, px, py>>), << >>, << >>) :
        v \in PutValues, px \in PutXs, py \in PutYs}

\* The small sources from every initial position and direction.
PositionCases ==
    {Case(c, Text(<<"5","\n">>), p, d) :
        c \in SmallSources, p \in PositionArgs, d \in DirectionArgs}

\* n input values read by '&', then one instruction, then '@'.
OperandCases ==
    UNION {{Case(Amps(n) \o <<op, AT>>, InputOf(vs), << >>, << >>) :
                vs \in [1..n -> InputValues], op \in Instructions} : n \in 0..2}

\* '#', then each character, then '@'.
BridgeCases ==
    {Case(<<C_BRIDGE, ch, AT>>, << >>, << >>, << >>) : ch \in Instructions}

\* Each character between two '"', then '@'.
StringCases ==
    {Case(<<DQUOTE, ch, DQUOTE, AT>>, << >>, << >>, << >>) :
        ch \in Instructions \cup {A_ACUTE}}

\* "5." writes, then an instruction fails (or, for 255, writes again).
FailingBodies ==
    {Text(<<"0", "/">>), Text(<<"0", "%">>), Text(<<"8", "8", "*", "4", "*", ",">>),
     Text(<<"8", "8", "*", "4", "*", "1", "-", ",">>), Text(<<"9", "9", "g">>),
     Text(<<"0", "9", "9", "p">>), Text(<<"8", "8", "*", "4", "*", "0", "0", "p">>),
     Text(<<"&">>), Text(<<"~">>), Text(<<"x">>)}
FailureCases ==
    {Case(Text(<<"5", ".">>) \o body \o <<AT>>, << >>, << >>, << >>) :
        body \in FailingBodies}

\* g on a grid of 4 x 2 cells: x and y are read from the input.
Get == Text(<<"&","&","g","@","\n","a","b">>)
GetXs == {I64(-1), I64(0), I64(1), I64(3), I64(4), I64(5)}
GetYs == {I64(-1), I64(0), I64(1), I64(2), I64(3)}
GetCases ==
    {Case(Get, InputOf(<<px, py>>), << >>, << >>) : px \in GetXs, py \in GetYs}

\* Two '&' on input lines that are integers, and on lines that are none.
Reads == Text(<<"&","&","@">>)
InputTexts ==
    {<< >>, Text(<<"\n">>), Text(<<"a","b","c","\n","7","\n">>),
     Text(<<" ","4","2"," ","\n","7","\n">>), Text(<<"+","5","\n","-","\n">>),
     Text(<<"-","0","7">>), Text(<<"5","\r","\n","6","\r","\n">>),
     Text(<<"1"," ","2","\n">>), Text(<<"4","2">>) \o <<LF>> \o Display(I64_MAX),
     Text(<<"9","2","2","3","3","7","2","0","3","6","8","5","4","7","7","5","8","0","8","\n">>)}
InputCases == {Case(Reads, i, << >>, << >>) : i \in InputTexts}

\* Two '~' on input lines of one character, of none and of several.
CharReads == Text(<<"~","~","@">>)
CharTexts ==
    {<< >>, Text(<<"\n">>), Text(<<"a","\n","b","\n">>), Text(<<" ","\n">>),
     Text(<<"a"," ","\n","b","\n">>), Text(<<"a","b","\n">>), Text(<<"a">>),
     Text(<<"a","\r","\n","b","\r","\n">>), <<A_ACUTE, LF>>, Text(<<"\r","\n">>)}
CharCases == {Case(CharReads, i, << >>, << >>) : i \in CharTexts}

\* 'p' followed by 'g': at the cell written, at another cell, after a second
\* 'p' at the same cell, and a '@' written on the pointer's way; then 'p' and
\* 'g' with the value and the two cells read from the input, on 9 x 2 cells.
SameCell == Text(<<"7","7","*","0","0","p","0","0","g",".","@">>)
OtherCell == Text(<<"7","7","*","0","0","p","1","0","g",".","@">>)
WrittenTwice ==
    Text(<<"7","7","*","0","0","p","8","8","*","0","0","p","0","0","g",".","@">>)
FetchWritten == Text(<<"8","8","*","9","0","p"," "," "," ","x">>)
PutThenGet == Text(<<"&","&","&","p","&","&","g",".","@","\n","a","b">>)
RoundTripCases ==
    {Case(c, << >>, << >>, << >>) : c \in {SameCell, OtherCell, WrittenTwice, FetchWritten}}
        \cup {Case(PutThenGet, InputOf(<<I64(v), I64(px), I64(py), I64(gx), I64(gy)>>),
                   << >>, << >>) :
                v \in {0, 65, 255}, px \in {0, 8}, py \in {0, 1}, gx \in {0, 8}, gy \in {0, 1}}

\* '&', '~' and '&' again, on three lines and on lines of which the second
\* is empty.
Mixed == Text(<<"&","~","&","@">>)
MixedCases ==
    {Case(Mixed, i, << >>, << >>) :
        i \in {Text(<<"1","\n","a","\n","2","\n">>),
               Text(<<"1","\n","\n","2","\n","b","\n">>)}}

Cases ==
    ProgramCases \cup PositionCases \cup OperandCases \cup DigitCases \cup PutCases
        \cup BridgeCases \cup StringCases \cup FailureCases \cup GetCases \cup InputCases
        \cup CharCases \cup RoundTripCases \cup MixedCases

(***************************************************************************)
(* The state machine: Interpreter::new, then execute().                    *)
(***************************************************************************)
\* A mutant of InterpreterNew: the direction defaults to Down.
InterpreterNew_DefaultDown(c, program_counter_position, program_counter_direction) ==
    PlayfieldNew(c, UnwrapOr(program_counter_position, Coord(0, 0)),
                 UnwrapOr(program_counter_direction, "Down"))

\* Interpreter::new
InterpreterNew(c, program_counter_position, program_counter_direction) ==
    PlayfieldNew(c, UnwrapOr(program_counter_position, Coord(0, 0)),
                 UnwrapOr(program_counter_direction, "Right"))

Init ==
    \E c \in Cases :
        /\ invocation = "Library"
        /\ source = c.code
        /\ position_arg = c.position
        /\ direction_arg = c.direction
        /\ overflow_checks \in BOOLEAN
        /\ LET new == InterpreterNew(c.code, c.position, c.direction)
           IN  /\ constructed = (new.res = "Ok")
               /\ playfield = new.playfield
               /\ result = IF new.res = "Ok" THEN "Constructed" ELSE new.res
        /\ stack = << >>
        /\ output_handle = << >>
        /\ input_handle = c.input
        /\ mode = "Command"

Self ==
    [playfield |-> playfield, stack |-> stack, output_handle |-> output_handle,
     input_handle |-> input_handle, mode |-> mode]

\* What the model follows: see the bounds.
Followed(self) ==
    /\ Len(self.stack) <= MaxStack
    /\ Len(self.output_handle) <= MaxOutput
    /\ \A i \in 1..Len(self.stack) : InModel(self.stack[i])

\* execute() is in its loop, on a playfield that is not empty.
InLoop == constructed /\ result \in {"Constructed", "Running"}
Looping == InLoop /\ playfield.dimensions.x # 0

curr_char == get_next_character(playfield).ch

\* The loop's iteration r takes the interpreter to.
Becomes(r) ==
    /\ Followed(r.self)
    /\ playfield' = r.self.playfield
    /\ stack' = r.self.stack
    /\ output_handle' = r.self.output_handle
    /\ input_handle' = r.self.input_handle
    /\ mode' = r.self.mode
    /\ result' = r.res
    /\ UNCHANGED <<invocation, source, position_arg, direction_arg, overflow_checks,
                   constructed>>

\* A mutant of EmptyProgram: the loop is left, and execute() returns Ok(()).
EmptyProgram_Breaks ==
    /\ InLoop /\ playfield.dimensions.x = 0
    /\ result' = "Ok"
    /\ UNCHANGED <<invocation, source, position_arg, direction_arg, overflow_checks,
                   constructed, playfield, stack, output_handle, input_handle, mode>>

\* interpreter.rs lines 86-88: an empty program is an infinite loop
EmptyProgram ==
    /\ InLoop /\ playfield.dimensions.x = 0
    /\ result' = "Running"
    /\ UNCHANGED <<invocation, source, position_arg, direction_arg, overflow_checks,
                   constructed, playfield, stack, output_handle, input_handle, mode>>

\* interpreter.rs line 90, at a position that is outside the vectors
FetchPanic ==
    /\ Looping /\ get_next_character(playfield).res = "Panic"
    /\ Becomes(Iteration(Self, 0))

Fetched == Looping /\ get_next_character(playfield).res = "Ok"

\* interpreter.rs line 93
BridgeStep == Fetched /\ mode = "Bridge" /\ Becomes(Iteration(Self, 0))

\* interpreter.rs lines 95-98
StringStep == Fetched /\ mode = "String" /\ Becomes(Iteration(Self, 0))

\* interpreter.rs line 101
PushDigit ==
    /\ Fetched /\ mode = "Command" /\ curr_char \in Digits
    /\ Becomes(Iteration(Self, 0))

\* interpreter.rs lines 103-105
UnaryOperation ==
    /\ Fetched /\ mode = "Command" /\ curr_char \in UnaryOps
    /\ Becomes(Iteration(Self, 0))

\* interpreter.rs lines 107-109
BinaryOperation ==
    /\ Fetched /\ mode = "Command" /\ curr_char \in BinaryOps
    /\ Becomes(Iteration(Self, 0))

\* A mutant of OtherOperation: a blank turns the pointer as '?' does.
OtherOperation_Drifting ==
    /\ Fetched /\ mode = "Command" /\ curr_char \in OtherOps
    /\ \E rnd \in 0..3 :
            Becomes(Iteration(IF curr_char = C_NOP
                              THEN SetDirection(Self, RandomDirection(rnd)) ELSE Self, rnd))

\* interpreter.rs lines 111-113
OtherOperation ==
    /\ Fetched /\ mode = "Command" /\ curr_char \in OtherOps
    /\ \E rnd \in (IF curr_char = C_RANDOM THEN 0..3 ELSE {0}) :
            Becomes(Iteration(Self, rnd))

\* interpreter.rs line 115
Terminate ==
    /\ Fetched /\ mode = "Command" /\ curr_char = AT
    /\ Becomes(Iteration(Self, 0))

\* interpreter.rs lines 117-121
InvalidCommand ==
    /\ Fetched /\ mode = "Command"
    /\ curr_char \notin Digits \cup UnaryOps \cup BinaryOps \cup OtherOps \cup {AT}
    /\ Becomes(Iteration(Self, 0))

Next ==
    \/ EmptyProgram
    \/ FetchPanic
    \/ BridgeStep
    \/ StringStep
    \/ PushDigit
    \/ UnaryOperation
    \/ BinaryOperation
    \/ OtherOperation
    \/ Terminate
    \/ InvalidCommand

Spec == Init /\ [][Next]_vars

(***************************************************************************)
(* The command line: main() and cli() of main.rs.                          *)
(***************************************************************************)
\* Where cli() returns before it constructs the interpreter (lines 86-102),
\* and "Run" when it comes to construct it.
EarlyReturns ==
    {"Help", "Version", "ArgumentError", "NotFound", "NoExtension", "BadExtension",
     "ReadError"}

\* The files given to the command line, with what the standard input holds:
\* the programs that are run from the default start.
Files == {c \in Cases : c.position = << >> /\ c.direction = << >>}

\* A null playfield, for the interpreter that is not constructed.
NoPlayfield ==
    [code_map |-> << >>, dimensions |-> Coord(0, 0),
     program_counter_position |-> Coord(0, 0), program_counter_direction |-> "Right"]

\* cli() up to Interpreter::new (main.rs lines 76-116)
CliInit ==
    \E c \in Files, inv \in EarlyReturns \cup {"Run"} :
        /\ invocation = inv
        /\ source = IF inv \in {"Run", "BadExtension", "NoExtension"} THEN c.code ELSE << >>
        /\ position_arg = << >>
        /\ direction_arg = << >>
        /\ overflow_checks \in BOOLEAN
        /\ IF inv = "Run"
           THEN LET new == InterpreterNew(c.code, << >>, << >>)
                IN  /\ constructed = (new.res = "Ok")
                    /\ playfield = new.playfield
                    /\ result = IF new.res = "Ok" THEN "Constructed" ELSE new.res
           ELSE constructed = FALSE /\ playfield = NoPlayfield /\ result = "NotRun"
        /\ stack = << >>
        /\ output_handle = << >>
        /\ input_handle = c.input
        /\ mode = "Command"

\* What cli() returns (main.rs lines 86, 88, 94, 99, 102, 116, 118, 120);
\* "Panic" when the interpreter panics and "Pending" while it runs.
cli ==
    CASE invocation = "Help" -> "clap::ErrorKind::HelpDisplayed"
      [] invocation = "Version" -> "clap::ErrorKind::VersionDisplayed"
      [] invocation = "ArgumentError" -> "clap::Error"
      [] invocation \in {"NotFound", "ReadError"} -> "io::Error"
      [] invocation \in {"NoExtension", "BadExtension"} -> "&str"
      [] OTHER ->
            IF result = "Ok" THEN "Ok"
            ELSE IF result \in {"Constructed", "Running"} THEN "Pending"
            ELSE IF result = "Panic" THEN "Panic"
            ELSE "befunge::Error"

\* The status main() exits with (main.rs lines 30-73); a panic unwinds out
\* of main and the process exits with 101; -1 stands for no exit yet.
main ==
    CASE cli = "Ok" -> 0
      [] cli \in {"clap::ErrorKind::HelpDisplayed", "clap::ErrorKind::VersionDisplayed"} -> 0
      [] cli \in {"clap::Error", "befunge::Error", "io::Error", "&str"} -> 1
      [] cli = "Panic" -> 101
      [] OTHER -> -1

\* The interpreter called directly and the interpreter behind the command
\* line.
CliSpec == (Init \/ CliInit) /\ [][Next]_vars

\* The runs of the three programs of the unit tests, of the empty program,
\* of a program with an unrecognized character and of one started on the
\* column past the grid.
LiveInit ==
    /\ Init
    /\ \/ /\ source \in {HelloWorld, Factorial, AtSigns, Empty, Text(<<"x", "@">>)}
          /\ position_arg = << >> /\ direction_arg = << >>
       \/ source = TwoByTwo /\ position_arg = <<Coord(2, 0)>>

\* ENABLED <<Next>>_vars, computed as the loop computes its iteration: the
\* empty program changes the state once, a fetch outside the rows panics,
\* and any other iteration is made when the model follows its outcome and
\* the outcome is another state.
CanStep ==
    /\ InLoop
    /\ \/ playfield.dimensions.x = 0 /\ result = "Constructed"
       \/ Looping /\ get_next_character(playfield).res # "Ok"
       \/ Fetched /\ \E rnd \in 0..3 :
                LET r == Iteration(Self, rnd)
                IN  Followed(r.self) /\ (r.self # Self \/ r.res # result)

\* execute() runs its loop without a pause: an iteration that can be made
\* is made (weak fairness of Next, with ENABLED written out as CanStep).
FairSpec == LiveInit /\ [][Next]_vars /\ ([]<>(~CanStep) \/ []<><<Next>>_vars)

(***************************************************************************)
(* The claims.                                                             *)
(***************************************************************************)
Ended == result \notin {"Constructed", "Running"}
DefaultStart == position_arg = << >> /\ direction_arg = << >>

HelloWorldOutput ==
    Text(<<"H","e","l","l","o",","," ","W","o","r","l","d","!","\n">>)

\* C1: the hello world program, run from the default start with an empty
\* input, ends only by returning Ok(()) at '@', and the output then holds
\* exactly "Hello, World!\n"; until then the loop can always go on.
C1_HelloWorld ==
    (source = HelloWorld /\ DefaultStart)
        => /\ ~Ended => ENABLED Next
           /\ Ended => /\ result = "Ok"
                       /\ curr_char = AT
                       /\ output_handle = HelloWorldOutput

C1_Witness ==
    source = HelloWorld /\ DefaultStart /\ result = "Ok"
        /\ output_handle = HelloWorldOutput

\* The grid's width and height.
Width == playfield.dimensions.x
Height == playfield.dimensions.y
Position == playfield.program_counter_position
Direction == playfield.program_counter_direction

\* C2: after a successful construction of a program of width >= 1 the
\* position is a cell of the grid, so that the fetch cannot fail.
C2_PositionInGrid ==
    (constructed /\ Width >= 1)
        => /\ 0 <= Position.x /\ Position.x < Width
           /\ 0 <= Position.y /\ Position.y < Height
           /\ get_next_character(playfield).res = "Ok"

\* The operands an instruction pops.
Arity(ch) == IF ch \in UnaryOps THEN 1 ELSE IF ch \in BinaryOps THEN 2 ELSE 3
Consuming == UnaryOps \cup BinaryOps \cup {C_PUT}

Zeros(n) == [i \in 1..n |-> I64(0)]

\* The stack without its top n values, and its k-th value from the top,
\* an absent value being 0.
Rest(s, n) == SubSeq(s, 1, Len(s) - n)
FromTop(s, k) == IF k <= Len(s) THEN s[Len(s) + 1 - k] ELSE I64(0)

\* Command mode has fetched ch.
Dispatching(ch) == Fetched /\ mode = "Command" /\ curr_char = ch

Underflow ==
    Fetched /\ mode = "Command" /\ curr_char \in Consuming
        /\ Len(stack) < Arity(curr_char)

\* C3: an instruction dispatched on a stack shorter than its arity does
\* what it does on that stack with the missing operands put below as
\* zeros: the same stack, output, grid, direction and mode, and the same
\* result, so that no failure comes from the underflow; '+' leaves [0] on an
\* empty stack and [5] on [5].
C3_Underflow ==
    [][Underflow =>
        LET full == [Self EXCEPT !.stack = Zeros(Arity(curr_char) - Len(stack)) \o stack]
            r == Iteration(full, 0)
        IN  /\ stack' = r.self.stack
            /\ playfield' = r.self.playfield
            /\ output_handle' = r.self.output_handle
            /\ mode' = r.self.mode
            /\ result' = r.res
            /\ (curr_char = C_ADD /\ stack = << >>) => stack' = <<I64(0)>>
            /\ (curr_char = C_ADD /\ stack = <<I64(5)>>) => stack' = <<I64(5)>>
            /\ (curr_char = C_ADD) => result' = "Running"]_vars

C3_Witness ==
    /\ source = Text(<<"5", "+", "@">>) /\ stack = <<I64(5)>> /\ curr_char = AT
    /\ result = "Running"

\* C4: '/' and '%' dispatched with 0 on top of the stack (or on an empty
\* stack) fail with a DivisionError whatever the dividend, and leave the
\* stack without the two operands, nothing pushed.
C4_DivisionByZero ==
    [][((Dispatching(C_DIV) \/ Dispatching(C_REM)) /\ FromTop(stack, 1) = I64(0))
        => /\ result' = "DivisionError"
           /\ stack' = Rest(stack, IF Len(stack) < 2 THEN Len(stack) ELSE 2)
           /\ output_handle' = output_handle
           /\ playfield' = playfield]_vars

C4_Witness ==
    /\ result = "DivisionError" /\ stack = << >>
    /\ source \in {Text(<<"6", "0", "%", "@">>), <<C_DIV, AT>>}

\* The value b op a of i64 arithmetic, as two's complement wraps it.
Wrapped(op, b, a) ==
    CASE op = C_ADD -> Wrap(b.hi + a.hi, b.lo + a.lo)
      [] op = C_SUB -> Wrap(b.hi - a.hi, b.lo - a.lo)
      [] op = C_MUL -> Wrap(b.hi * a.lo + a.hi * b.lo, b.lo * a.lo)

\* C5: '+', '-', '*', '/', '%' (the divisor not 0) go on with the stack
\* without its two operands and with b + a, b - a, b * a, b / a, b % a
\* pushed, a the value popped first; [5,7] '-' gives -2, [5,5] '+' gives 10.
C5_Arithmetic ==
    [][\A op \in {C_ADD, C_SUB, C_MUL, C_DIV, C_REM} :
        LET a == FromTop(stack, 1)
            b == FromTop(stack, 2)
            rest == Rest(stack, IF Len(stack) < 2 THEN Len(stack) ELSE 2)
        IN  (Dispatching(op) /\ (op \in {C_DIV, C_REM} => a # I64(0)))
                => /\ result' = "Running"
                   /\ Len(stack') = Len(rest) + 1
                   /\ Rest(stack', 1) = rest
                   /\ op \in {C_ADD, C_SUB, C_MUL}
                        => FromTop(stack', 1) = Wrapped(op, b, a)
                   /\ (op = C_DIV /\ a.hi = 0 /\ b.hi = 0)
                        => FromTop(stack', 1) = I64(TruncDiv(b.lo, a.lo))
                   /\ (op = C_REM /\ a.hi = 0 /\ b.hi = 0)
                        => FromTop(stack', 1) = I64(TruncRem(b.lo, a.lo))]_vars

\* One cell from pos in direction dir on a torus of w x h cells.
Advanced(pos, dir, w, h) ==
    CASE dir = "Right" -> Coord(IF pos.x = w - 1 THEN 0 ELSE pos.x + 1, pos.y)
      [] dir = "Left" -> Coord(IF pos.x = 0 THEN w - 1 ELSE pos.x - 1, pos.y)
      [] dir = "Down" -> Coord(pos.x, IF pos.y = h - 1 THEN 0 ELSE pos.y + 1)
      [] dir = "Up" -> Coord(pos.x, IF pos.y = 0 THEN h - 1 ELSE pos.y - 1)

\* C6: the advance that ends an iteration of the loop takes the playfield
\* the instruction left to the same playfield with the position moved one
\* cell in its direction, wrapping around: the grid, the dimensions and the
\* direction are those the instruction left.
C6_Advance ==
    [][(Looping /\ result' = "Running")
        => \E rnd \in 0..3 :
            LET d == Dispatch(Self, curr_char, rnd).self.playfield
            IN  playfield' =
                    [d EXCEPT !.program_counter_position =
                        Advanced(d.program_counter_position, d.program_counter_direction,
                                 d.dimensions.x, d.dimensions.y)]]_vars

\* Reached by wrapping around to the left from column 0.
C6_Witness ==
    /\ source = TwoByTwo /\ position_arg = <<Coord(0, 1)>> /\ direction_arg = <<"Left">>
    /\ result = "Running" /\ Position = Coord(1, 1)

\* C7: construction fails, with a BoundsError, exactly when a coordinate of
\* the initial position is negative or exceeds the dimension (x > width or
\* y > height), as (13333, 0) does on 5:.,@ ; otherwise the interpreter is
\* constructed at the supplied position and direction.
C7_Construction ==
    LET pos == UnwrapOr(position_arg, Coord(0, 0))
        w == PlayfieldWidth(source)
        h == Len(Lines(source))
    IN  /\ ~constructed <=> (pos.x < 0 \/ pos.y < 0 \/ pos.x > w \/ pos.y > h)
        /\ ~constructed => result = "BoundsError"
        /\ (source = Basic /\ position_arg = <<Coord(13333, 0)>>) => ~constructed
        /\ result = "Constructed"
            => /\ constructed
               /\ Position = pos
               /\ Direction = UnwrapOr(direction_arg, "Right")

C7_Witness ==
    source = Basic /\ position_arg = <<Coord(13333, 0)>> /\ result = "BoundsError"

RECURSIVE MaxLen(_)
MaxLen(ls) == IF ls = << >> THEN 0 ELSE Max(Len(Head(ls)), MaxLen(Tail(ls)))

\* C8: the constructed grid has as many rows as the source has lines, each
\* row is its line followed by spaces only, and every row has width
\* characters, the width being the number of characters of the longest
\* line.
C8_Padding ==
    result = "Constructed"
        => /\ Height = Len(Lines(source))
           /\ Len(playfield.code_map) = Height
           /\ Width = MaxLen(Lines(source))
           /\ \A i \in 1..Height :
                LET row == playfield.code_map[i]
                    line == Lines(source)[i]
                IN  /\ Len(row) = Width
                    /\ SubSeq(row, 1, Len(line)) = line
                    /\ \A j \in (Len(line) + 1)..Len(row) : row[j] = SPACE

\* A 'p' that goes on: its operands are y, x and the value, from the top.
PutGoesOn == Dispatching(C_PUT) /\ result' = "Running"

\* C9: the dimensions and the length of every row never change; the grid
\* changes only in a step that dispatches 'p' and goes on, and then exactly
\* the cell (x,y) that 'p' popped holds the popped value, the direction is
\* unchanged and the position is one advance from where 'p' was fetched.
C9_GridFrame ==
    [][constructed =>
        /\ playfield'.dimensions = playfield.dimensions
        /\ Len(playfield'.code_map) = Len(playfield.code_map)
        /\ \A i \in 1..Len(playfield.code_map) :
                Len(playfield'.code_map[i]) = Len(playfield.code_map[i])
        /\ playfield'.code_map # playfield.code_map => PutGoesOn
        /\ PutGoesOn =>
            LET y == FromTop(stack, 1).lo
                x == FromTop(stack, 2).lo
                v == FromTop(stack, 3).lo
            IN  /\ playfield'.code_map =
                        [playfield.code_map EXCEPT ![y + 1][x + 1] = v]
                /\ 0 <= x /\ x < Width /\ 0 <= y /\ y < Height
                /\ Direction' = Direction
                /\ Position' = Advanced(Position, Direction, Width, Height)]_vars

\* 'A' has been written below the 'p' that wrote it.
C9_Witness ==
    /\ source = Put /\ result = "Ok"
    /\ playfield.code_map =
            <<Text(<<"&", "&", "&", "p", "@">>), Text(<<"a", "b", " ", " ", "A">>)>>

\* C10: an iteration of the loop makes execute() return Ok(()) exactly when
\* it fetches '@' in command mode, whatever the stack holds, and '@' is then
\* the character at the position; '@' fetched in string mode is pushed as 64
\* and '@' fetched in bridge mode is skipped, and the loop goes on.
C10_Termination ==
    [][InLoop =>
        /\ result' = "Ok" <=> Dispatching(AT)
        /\ result' = "Ok" =>
                /\ get_next_character(playfield').ch = AT
                /\ stack' = stack /\ playfield' = playfield
        /\ (Fetched /\ curr_char = AT /\ mode = "String")
                => result' = "Running" /\ stack' = Append(stack, I64(64))
                        /\ mode' = "String"
        /\ (Fetched /\ curr_char = AT /\ mode = "Bridge")
                => result' = "Running" /\ stack' = stack /\ mode' = "Command"]_vars

C10_Witness ==
    /\ source = AtSigns /\ result = "Ok" /\ stack = <<I64(64)>>
    /\ Position = Coord(5, 0)

\* C11: '#' dispatched in command mode goes on in bridge mode, one advance
\* further; the step made in bridge mode fetches without a crash whatever
\* the cell holds, leaves the stack, the direction, the grid, the output
\* and the input as they are, goes on in command mode and advances once.
C11_Bridge ==
    [][/\ Dispatching(C_BRIDGE)
            => /\ result' = "Running" /\ mode' = "Bridge" /\ stack' = stack
               /\ Position' = Advanced(Position, Direction, Width, Height)
       /\ (InLoop /\ mode = "Bridge")
            => /\ Fetched
               /\ result' = "Running" /\ mode' = "Command"
               /\ stack' = stack
               /\ Direction' = Direction
               /\ playfield'.code_map = playfield.code_map
               /\ output_handle' = output_handle
               /\ input_handle' = input_handle
               /\ Position' = Advanced(Position, Direction, Width, Height)]_vars

\* An unrecognized character after '#' has been skipped.
C11_Witness ==
    /\ source = <<C_BRIDGE, Ord("x"), AT>> /\ result = "Ok"
    /\ stack = << >> /\ Position = Coord(2, 0) /\ mode = "Command"

\* C12: '"' dispatched in command mode goes on in string mode; a step made
\* in string mode fetches without a crash and goes on with the direction,
\* the grid and the output as they are: on a character other than '"' it
\* pushes the character's code point and stays in string mode, on '"' it
\* pushes nothing and returns to command mode.
C12_String ==
    [][/\ Dispatching(C_STRING)
            => result' = "Running" /\ mode' = "String" /\ stack' = stack
       /\ (InLoop /\ mode = "String")
            => /\ Fetched
               /\ result' = "Running"
               /\ Direction' = Direction
               /\ playfield'.code_map = playfield.code_map
               /\ output_handle' = output_handle
               /\ curr_char # DQUOTE
                    => stack' = Append(stack, I64(curr_char)) /\ mode' = "String"
               /\ curr_char = DQUOTE
                    => stack' = stack /\ mode' = "Command"]_vars

\* The code point 225 of a character of two UTF-8 bytes has been pushed.
C12_Witness ==
    /\ source = <<DQUOTE, A_ACUTE, DQUOTE, AT>> /\ result = "Ok"
    /\ stack = <<I64(225)>> /\ mode = "Command"

\* C13: a step that fetches a cell and goes on leaves the position one
\* cell, wrapping around, from where it fetched, in the direction the step
\* ends with; '>', '<', '^', 'v', '_' and '|' end with the direction they
\* set and '?' with one of the four; the step that dispatches '@' returns
\* Ok with the position where '@' is.
C13_AdvanceAfterEffect ==
    [][/\ (Fetched /\ result' = "Running")
            => Position' = Advanced(Position, Direction', Width, Height)
       /\ (Dispatching(C_RIGHT) => result' = "Running" /\ Direction' = "Right")
       /\ (Dispatching(C_LEFT) => result' = "Running" /\ Direction' = "Left")
       /\ (Dispatching(C_UP) => result' = "Running" /\ Direction' = "Up")
       /\ (Dispatching(C_DOWN) => result' = "Running" /\ Direction' = "Down")
       /\ (Dispatching(C_RANDOM) => result' = "Running" /\ Direction' \in Directions)
       /\ Dispatching(C_HIF)
            => /\ result' = "Running"
               /\ Direction' = IF FromTop(stack, 1) = I64(0) THEN "Right" ELSE "Left"
       /\ Dispatching(C_VIF)
            => /\ result' = "Running"
               /\ Direction' = IF FromTop(stack, 1) = I64(0) THEN "Down" ELSE "Up"
       /\ Dispatching(AT) => result' = "Ok" /\ Position' = Position]_vars

\* 'v' at (0,0), entered rightwards, has moved the position down.
C13_Witness ==
    /\ source = Loop /\ DefaultStart /\ result = "Running"
    /\ Position = Coord(0, 1) /\ Direction = "Down"

\* The characters of the instruction table: the digits and the symbols.
ListedSymbols ==
    Text(<<" ", "+", "-", "*", "/", "%", "!", "GRAVE", ">", "<", "^", "v", "?", "_",
           "|", ":", "\\", "$", ".", ",", "\"", "#", "g", "p", "&", "~", "@">>)
Listed == {ListedSymbols[i] : i \in DOMAIN ListedSymbols} \cup (ZERO..NINE)

\* The failures execute() returns.
Failures == {"DivisionError", "RangeError", "BoundsError", "ParseError", "DecodeError"}

\* C14: when the instruction dispatched in command mode fails, the step
\* ends with that failure, with the output as it was and the position at
\* the failing cell; the failure a step ends with is the one of the
\* instruction it dispatched; and no step follows a failure.
C14_FailureReturned ==
    [][/\ result \notin Failures
       /\ (Fetched /\ mode = "Command")
            => LET d == CommandDispatch(Self, curr_char, 0)
               IN  d.res \in Failures
                    => /\ result' = d.res
                       /\ output_handle' = output_handle
                       /\ Position' = Position
       /\ result' \in Failures
            => /\ Fetched /\ mode = "Command"
               /\ output_handle' = output_handle
               /\ Position' = Position
       /\ result' = "DivisionError" => curr_char \in {C_DIV, C_REM}
       /\ result' = "RangeError" => curr_char \in {C_OUTCHAR, C_PUT}
       /\ result' = "BoundsError" => curr_char \in {C_GET, C_PUT}
       /\ result' = "ParseError" => curr_char \in {C_INNUM, C_INCHAR}
       /\ result' = "DecodeError" => curr_char \notin Listed]_vars

\* "5 " was written before '/' failed at (3,0).
C14_Witness ==
    /\ source = Text(<<"5", ".", "0", "/", "@">>) /\ result = "DivisionError"
    /\ output_handle = Text(<<"5", " ">>) /\ Position = Coord(3, 0)

\* What the step beginning in this state writes: '.' the decimal text of the
\* popped value and one space, ',' the character of the popped code, any
\* other step nothing.
Written ==
    IF Dispatching(C_OUTNUM) THEN Display(FromTop(stack, 1)) \o <<SPACE>>
    ELSE IF /\ Dispatching(C_OUTCHAR)
            /\ FromTop(stack, 1).hi = 0
            /\ FromTop(stack, 1).lo \in 0..255
        THEN Utf8(FromTop(stack, 1).lo)
    ELSE << >>

\* C15: the output is empty at the start and every step appends to it what
\* the step writes and nothing else, so that the output is always the texts
\* written by the '.' and ',' executed so far, in the order of execution.
C15_OutputAppended ==
    [][/\ (result = "Constructed" => output_handle = << >>)
       /\ output_handle' = output_handle \o Written]_vars

\* 5:.,@ has written "5 " and then the character of code 5.
C15_Witness ==
    /\ source = Basic /\ DefaultStart /\ result = "Ok"
    /\ output_handle = <<Ord("5"), SPACE, 5>>

\* v is a character code: 0 <= v <= 255.
Legal(v) == v.hi = 0 /\ v.lo \in 0..255

\* C16: the conversion yields the character of code v for every v of
\* 0..255 and a RangeError for every other v, as for 5555, -333, 256, -1 and
\* the ends of the i64 range; ',' writes the character and goes on when the
\* popped v is in 0..255 and otherwise fails with a RangeError, the output
\* as it was; 'p' fails with a RangeError exactly when its v is not in
\* 0..255.
C16_Conversion ==
    [][/\ \A v \in 0..255 : convert_int_to_char(I64(v)) = [res |-> "Ok", ch |-> v]
       /\ \A v \in {I64(5555), I64(-333), I64(256), I64(-1), I64_MIN, I64_MAX} :
            convert_int_to_char(v).res = "RangeError"
       /\ Dispatching(C_OUTCHAR)
            => IF Legal(FromTop(stack, 1))
               THEN /\ result' = "Running"
                    /\ output_handle' = output_handle \o Utf8(FromTop(stack, 1).lo)
               ELSE /\ result' = "RangeError"
                    /\ output_handle' = output_handle
       /\ Dispatching(C_PUT)
            => (result' = "RangeError" <=> ~Legal(FromTop(stack, 3)))]_vars

\* ',' has failed on 256 after "5 " was written.
C16_Witness ==
    /\ source = Text(<<"5", ".", "8", "8", "*", "4", "*", ",", "@">>)
    /\ result = "RangeError" /\ output_handle = Text(<<"5", " ">>) /\ stack = << >>

\* (x,y) is a cell of the grid.
InGrid(x, y) ==
    /\ x.hi = 0 /\ 0 <= x.lo /\ x.lo < Width
    /\ y.hi = 0 /\ 0 <= y.lo /\ y.lo < Height

\* The stack below the operands an instruction of arity n pops.
BelowOperands(n) == Rest(stack, IF Len(stack) < n THEN Len(stack) ELSE n)

\* C17: 'g' pops y, then x; when (x,y) is a cell of the grid it goes on with
\* the code of the character in column x of row y pushed and the grid as it
\* was; otherwise it fails with a BoundsError, nothing pushed.
C17_Get ==
    [][Dispatching(C_GET) =>
        LET y == FromTop(stack, 1)
            x == FromTop(stack, 2)
        IN  /\ playfield'.code_map = playfield.code_map
            /\ IF InGrid(x, y)
               THEN /\ result' = "Running"
                    /\ stack' = Append(BelowOperands(2), I64(playfield.code_map[y.lo + 1][x.lo + 1]))
               ELSE /\ result' = "BoundsError"
                    /\ stack' = BelowOperands(2)]_vars

\* C18: 'p' pops y, then x, then v; when v is in 0..255 and (x,y) is a cell
\* of the grid it goes on with the character of code v in cell (x,y) and
\* every other cell as it was; when v is not in 0..255 it fails with a
\* RangeError, and when (x,y) is no cell of the grid with a BoundsError, the
\* grid as it was in both cases.
C18_Put ==
    [][Dispatching(C_PUT) =>
        LET y == FromTop(stack, 1)
            x == FromTop(stack, 2)
            v == FromTop(stack, 3)
        IN  IF ~Legal(v)
            THEN result' = "RangeError" /\ playfield'.code_map = playfield.code_map
            ELSE IF ~InGrid(x, y)
            THEN result' = "BoundsError" /\ playfield'.code_map = playfield.code_map
            ELSE /\ result' = "Running"
                 /\ stack' = BelowOperands(3)
                 /\ playfield'.code_map =
                        [playfield.code_map EXCEPT ![y.lo + 1][x.lo + 1] = v.lo]]_vars

\* C19: a step that fetches, in command mode, a character that is neither a
\* digit nor a listed symbol ends with a DecodeError and everything else as
\* it was, also when a 'p' wrote the character; and a step ends with a
\* DecodeError only so, never in string or bridge mode.
C19_Decode ==
    [][/\ (Fetched /\ mode = "Command" /\ curr_char \notin Listed)
            => /\ result' = "DecodeError"
               /\ stack' = stack
               /\ playfield' = playfield
               /\ output_handle' = output_handle
               /\ input_handle' = input_handle
               /\ mode' = mode
       /\ result' = "DecodeError"
            => Fetched /\ mode = "Command" /\ curr_char \notin Listed]_vars

\* The 'A' that 'p' wrote over '@' has been fetched.
C19_Witness ==
    /\ source = Put /\ result = "DecodeError" /\ Position = Coord(4, 0)
    /\ playfield.code_map[1] = Text(<<"&", "&", "&", "p", "A">>)

\* The length of the first line of inp, its line feed included: all of inp
\* when it has no line feed.
LineEnd(inp) ==
    IF \E i \in 1..Len(inp) : inp[i] = LF
    THEN CHOOSE i \in 1..Len(inp) :
            inp[i] = LF /\ \A j \in 1..(i - 1) : inp[j] # LF
    ELSE Len(inp)

\* The digits of the numeral t without its sign and leading zeros.
Magnitude(t) ==
    StripZeros(IF t # << >> /\ Head(t) \in {PLUS, MINUS} THEN Tail(t) ELSE t)

\* t is an optional sign and one or more digits.
Numeral(t) ==
    LET d == IF t # << >> /\ Head(t) \in {PLUS, MINUS} THEN Tail(t) ELSE t
    IN  d # << >> /\ \A i \in 1..Len(d) : d[i] \in ZERO..NINE

\* The numeral t is of a value of the stack: -2^63 <= t < 2^63.
InI64(t) ==
    LET z == Magnitude(t)
        most == IF Head(t) = MINUS THEN Tail(Display(I64_MIN)) ELSE Display(I64_MAX)
    IN  Len(z) < Len(most) \/ (Len(z) = Len(most) /\ ~DigitsLess(most, z))

\* The decimal text of the value of the numeral t.
Canon(t) ==
    LET z == Magnitude(t)
    IN  IF z = << >> THEN <<ZERO>>
        ELSE (IF Head(t) = MINUS THEN <<MINUS>> ELSE << >>) \o z

\* C20: '&' takes the first line off the input, whatever the line holds;
\* when the line, without the white space around it, is the numeral of a
\* value of the stack, it goes on with that value pushed; otherwise (text
\* that is no numeral, an empty line, the end of the input, a numeral
\* outside the 64 bits) it fails with a ParseError, nothing pushed.
C20_InputNumber ==
    [][Dispatching(C_INNUM) =>
        LET n == LineEnd(input_handle)
            t == Trim(SubSeq(input_handle, 1, n))
        IN  /\ input_handle' = SubSeq(input_handle, n + 1, Len(input_handle))
            /\ IF Numeral(t) /\ InI64(t)
               THEN /\ result' = "Running"
                    /\ Len(stack') = Len(stack) + 1
                    /\ Rest(stack', 1) = stack
                    /\ Display(FromTop(stack', 1)) = Canon(t)
               ELSE /\ result' = "ParseError"
                    /\ stack' = stack]_vars

\* The lines " 42 " and "7" have been read, one by each '&'.
C20_Witness ==
    /\ source = Reads /\ result = "Ok" /\ stack = <<I64(42), I64(7)>>
    /\ input_handle = << >>

\* The first line of inp without its line terminator ("\n" or "\r\n").
LineContent(inp) ==
    LET l == SubSeq(inp, 1, LineEnd(inp))
        m == IF l # << >> /\ l[Len(l)] = LF THEN SubSeq(l, 1, Len(l) - 1) ELSE l
    IN  IF m # << >> /\ m[Len(m)] = CR THEN SubSeq(m, 1, Len(m) - 1) ELSE m

\* C21: '~' takes the first line off the input; when the line without its
\* terminator is exactly one character it goes on with the character's code
\* pushed; otherwise (no character, two or more, the end of the input) it
\* fails with a ParseError, nothing pushed.
C21_InputChar ==
    [][Dispatching(C_INCHAR) =>
        LET n == LineEnd(input_handle)
            l == LineContent(input_handle)
        IN  /\ input_handle' = SubSeq(input_handle, n + 1, Len(input_handle))
            /\ IF Len(l) = 1
               THEN result' = "Running" /\ stack' = Append(stack, I64(l[1]))
               ELSE result' = "ParseError" /\ stack' = stack]_vars

\* C22: a step changes the mode only from Command to String dispatching
\* '"', from String to Command fetching '"', from Command to Bridge
\* dispatching '#', and from Bridge to Command; each of these steps does
\* change it so, a step made in bridge mode never ends in bridge mode, and
\* a step made in string mode never ends in bridge mode.
C22_ModeChanges ==
    [][/\ mode \in Modes /\ mode' \in Modes
       /\ mode' # mode
            => \/ mode = "Command" /\ mode' = "String" /\ Dispatching(C_STRING)
               \/ mode = "String" /\ mode' = "Command" /\ Fetched /\ curr_char = DQUOTE
               \/ mode = "Command" /\ mode' = "Bridge" /\ Dispatching(C_BRIDGE)
               \/ mode = "Bridge" /\ mode' = "Command"
       /\ Dispatching(C_STRING) => mode' = "String"
       /\ Dispatching(C_BRIDGE) => mode' = "Bridge"
       /\ (Fetched /\ mode = "String" /\ curr_char = DQUOTE) => mode' = "Command"
       /\ mode = "Bridge" => mode' = "Command"
       /\ mode = "String" => mode' # "Bridge"]_vars

\* Bridge mode entered after string mode was left: "@"# of "@"#@@.
C22_Witness ==
    /\ source = AtSigns /\ mode = "Bridge" /\ stack = <<I64(64)>>
    /\ Position = Coord(4, 0) /\ result = "Running"

\* C23: on a grid of width 0 execute() is always in its loop and can always
\* make another iteration: it has neither returned nor crashed, and the
\* stack, the output, the position, the direction and the mode are those of
\* the construction.
C23_EmptyProgram ==
    (constructed /\ Width = 0)
        => /\ result \in {"Constructed", "Running"}
           /\ ENABLED Next
           /\ stack = << >>
           /\ output_handle = << >>
           /\ mode = "Command"
           /\ Position = UnwrapOr(position_arg, Coord(0, 0))
           /\ Direction = UnwrapOr(direction_arg, "Right")

\* The loop has iterated on the empty source, and on a source of one empty
\* line.
C23_Witness ==
    /\ source \in {Empty, OnlyLineFeed} /\ constructed /\ Width = 0
    /\ result = "Running"

\* C24: '_' goes on with its operand popped, nothing pushed, and the
\* direction Right when the operand is 0 (or the stack empty) and Left
\* otherwise; '|' likewise with Down and Up.
C24_Branches ==
    [][/\ Dispatching(C_HIF)
            => /\ result' = "Running"
               /\ stack' = BelowOperands(1)
               /\ Direction' = IF stack = << >> \/ stack[Len(stack)] = I64(0)
                               THEN "Right" ELSE "Left"
       /\ Dispatching(C_VIF)
            => /\ result' = "Running"
               /\ stack' = BelowOperands(1)
               /\ Direction' = IF stack = << >> \/ stack[Len(stack)] = I64(0)
                               THEN "Down" ELSE "Up"]_vars

\* '|' has turned up on 9.
C24_Witness ==
    /\ source = Text(<<"9", "|", "@">>) /\ Direction = "Up" /\ stack = << >>
    /\ result = "Running"

\* C25: '!' goes on with its operand replaced by 1 when the operand is 0
\* and by 0 when it is any other value; the depth stays as it was on a stack
\* that is not empty, and the empty stack becomes [1].
C25_Not ==
    [][Dispatching(C_NOT)
        => /\ result' = "Running"
           /\ IF stack = << >> THEN stack' = <<I64(1)>>
              ELSE /\ Len(stack') = Len(stack)
                   /\ Rest(stack', 1) = Rest(stack, 1)
                   /\ stack'[Len(stack)] =
                        IF stack[Len(stack)] = I64(0) THEN I64(1) ELSE I64(0)]_vars

\* '!' has turned a value read from the input into 0, none of the values
\* below 0 excepted.
C25_Witness ==
    /\ source = <<C_INNUM, C_INNUM, C_NOT, AT>> /\ result = "Ok"
    /\ stack = <<I64(-7), I64(0)>>

\* b - a is above 0, for values b and a of the stack.
DifferencePositive(b, a) ==
    LET dh == b.hi - a.hi
        dl == b.lo - a.lo
    IN  dh > 0 \/ (dh = 0 /\ dl > 0)

\* C26: the backtick goes on with its two operands, a popped first, replaced
\* by 1 when b > a and by 0 otherwise: 0 for equal operands, 1 for [6,5], 0
\* for [5,6], and 0 or 1 in every case.
C26_GreaterThan ==
    [][Dispatching(C_GT)
        => LET a == FromTop(stack, 1)
               b == FromTop(stack, 2)
           IN  /\ result' = "Running"
               /\ stack' = Append(BelowOperands(2),
                                  IF DifferencePositive(b, a) THEN I64(1) ELSE I64(0))
               /\ FromTop(stack', 1) \in {I64(0), I64(1)}
               /\ a = b => FromTop(stack', 1) = I64(0)
               /\ (b = I64(6) /\ a = I64(5)) => FromTop(stack', 1) = I64(1)
               /\ (b = I64(5) /\ a = I64(6)) => FromTop(stack', 1) = I64(0)
               /\ (b = I64_MAX /\ a = I64_MIN) => FromTop(stack', 1) = I64(1)
               /\ (b = I64_MIN /\ a = I64_MAX) => FromTop(stack', 1) = I64(0)]_vars

\* Equal operands have given 0.
C26_Witness ==
    /\ source = Text(<<"6", "6", "GRAVE", "@">>) /\ result = "Ok"
    /\ stack = <<I64(0)>>

\* C27: ':' goes on with a copy of the top pushed onto a stack that is not
\* empty, everything else as it was, and makes the empty stack [0, 0].
C27_Duplicate ==
    [][Dispatching(C_DUP)
        => /\ result' = "Running"
           /\ IF stack = << >> THEN stack' = <<I64(0), I64(0)>>
              ELSE /\ Len(stack') = Len(stack) + 1
                   /\ Rest(stack', 2) = Rest(stack, 1)
                   /\ FromTop(stack', 1) = stack[Len(stack)]
                   /\ FromTop(stack', 2) = stack[Len(stack)]]_vars

\* ':' on the empty stack, and ':' on [5].
C27_Witness ==
    /\ result = "Ok"
    /\ \/ source = <<C_DUP, AT>> /\ stack = <<I64(0), I64(0)>>
       \/ source = Text(<<"5", ":", "@">>) /\ stack = <<I64(5), I64(5)>>

\* C28: the backslash goes on with the two top values exchanged and
\* everything below as it was; [6,5] becomes [5,6], [x] becomes [x,0] and
\* the empty stack [0,0]; and the backslash applied twice to a stack of two
\* or more values gives that stack again.
C28_Swap ==
    [][Dispatching(C_SWAP)
        => /\ result' = "Running"
           /\ stack' = BelowOperands(2) \o <<FromTop(stack, 1), FromTop(stack, 2)>>
           /\ stack = <<I64(6), I64(5)>> => stack' = <<I64(5), I64(6)>>
           /\ Len(stack) = 1 => stack' = <<stack[1], I64(0)>>
           /\ stack = << >> => stack' = <<I64(0), I64(0)>>
           /\ Len(stack) >= 2
                => LET once == run_binary_operation(Self, C_SWAP).self
                       twice == run_binary_operation(once, C_SWAP).self
                   IN  once.stack = stack' /\ twice.stack = stack]_vars

\* [6,5] has become [5,6].
C28_Witness ==
    /\ source = Text(<<"6", "5", "\\", "@">>) /\ result = "Ok"
    /\ stack = <<I64(5), I64(6)>>

\* C29: '.' goes on, whatever its operand v, with v popped and the decimal
\* text of v, a minus sign first when v is below 0, and one space appended
\* to the output: "0 " on the empty stack, "-7 " for -7, and the twenty
\* characters of -9223372036854775808 and a space for the least value.
C29_OutputNumber ==
    [][Dispatching(C_OUTNUM)
        => LET v == FromTop(stack, 1)
           IN  /\ result' = "Running"
               /\ stack' = BelowOperands(1)
               /\ output_handle' = output_handle \o Display(v) \o <<SPACE>>
               /\ IsNegative(v) <=> output_handle'[Len(output_handle) + 1] = MINUS
               /\ stack = << >> => output_handle' = output_handle \o Text(<<"0", " ">>)
               /\ v = I64(-7) => output_handle' = output_handle \o Text(<<"-", "7", " ">>)
               /\ v = I64(5) => output_handle' = output_handle \o Text(<<"5", " ">>)
               /\ v = I64_MIN
                    => output_handle' = output_handle
                        \o Text(<<"-","9","2","2","3","3","7","2","0","3","6","8","5","4",
                                  "7","7","5","8","0","8"," ">>)
               /\ v = I64_MAX
                    => output_handle' = output_handle
                        \o Text(<<"9","2","2","3","3","7","2","0","3","6","8","5","4",
                                  "7","7","5","8","0","7"," ">>)]_vars

\* The least value has been written.
C29_Witness ==
    /\ source = <<C_INNUM, C_OUTNUM, AT>> /\ result = "Ok" /\ stack = << >>
    /\ output_handle = Display(I64_MIN) \o <<SPACE>>

\* '>', '<', '^', 'v' and '?'.
Turns == {C_RIGHT, C_LEFT, C_UP, C_DOWN, C_RANDOM}
Turning == Fetched /\ mode = "Command" /\ curr_char \in Turns

\* C30: '>', '<', '^' and 'v' set the direction to right, left, up and
\* down; '?' sets it to one of the four, and from every state that
\* dispatches '?' each of the four can be the one; none of the five
\* changes the stack, the mode, the grid, the output or the input, and
\* every one goes on.
C30_Directions ==
    /\ [][/\ Turning
            => /\ result' = "Running"
               /\ stack' = stack /\ mode' = mode
               /\ playfield'.code_map = playfield.code_map
               /\ output_handle' = output_handle /\ input_handle' = input_handle
               /\ Position' = Advanced(Position, Direction', Width, Height)
          /\ Dispatching(C_RIGHT) => Direction' = "Right"
          /\ Dispatching(C_LEFT) => Direction' = "Left"
          /\ Dispatching(C_UP) => Direction' = "Up"
          /\ Dispatching(C_DOWN) => Direction' = "Down"
          /\ Dispatching(C_RANDOM) => Direction' \in Directions]_vars
    /\ [](Dispatching(C_RANDOM)
            => \A d \in Directions : ENABLED (OtherOperation /\ Direction' = d))

\* '?' between two values has turned the direction upwards and kept both.
C30_Witness ==
    /\ source = <<C_INNUM, C_INNUM, C_RANDOM, AT>> /\ result = "Running"
    /\ Direction = "Up" /\ Position = Coord(2, 0) /\ Len(stack) = 2

\* Every row is its line of the source followed by spaces only, and all
\* rows are as wide as the grid.
PaddedSource(code_map) ==
    /\ Len(code_map) = Len(Lines(source))
    /\ \A i \in 1..Len(code_map) :
            LET row == code_map[i]
                line == Lines(source)[i]
            IN  /\ Len(row) = Width /\ Len(line) <= Width
                /\ SubSeq(row, 1, Len(line)) = line
                /\ \A j \in (Len(line) + 1)..Len(row) : row[j] = SPACE

\* C31: an interpreter constructed without a position and a direction
\* starts at (0,0) heading right, in mode Command, with an empty stack and
\* the padded source as its grid; a position or a direction that is given
\* replaces that component only: the other one keeps its default, and the
\* grid, the dimensions, the mode and the stack are those of the default
\* construction.
C31_Defaults ==
    result = "Constructed"
        => LET default == InterpreterNew(source, << >>, << >>).playfield
           IN  /\ mode = "Command" /\ stack = << >> /\ output_handle = << >>
               /\ PaddedSource(playfield.code_map)
               /\ position_arg = << >> => Position = Coord(0, 0)
               /\ direction_arg = << >> => Direction = "Right"
               /\ position_arg # << >> => Position = position_arg[1]
               /\ direction_arg # << >> => Direction = direction_arg[1]
               /\ playfield.code_map = default.code_map
               /\ playfield.dimensions = default.dimensions
               /\ DefaultStart => playfield = default

\* 5:.,@ constructed at (1,0) keeps the direction Right.
C31_Witness ==
    /\ source = Basic /\ position_arg = <<Coord(1, 0)>> /\ direction_arg = << >>
    /\ result = "Constructed" /\ Position = Coord(1, 0) /\ Direction = "Right"
    /\ playfield.code_map = <<Basic>>

RECURSIVE Factorial_Of(_)
Factorial_Of(n) == IF n = 0 THEN 1 ELSE n * Factorial_Of(n - 1)

\* The factorial program constructed from the default start with the one
\* input line n.
FactorialStarts(n) ==
    /\ source = Factorial /\ DefaultStart /\ result = "Constructed"
    /\ input_handle = NatDigits(n) \o <<LF>>

\* execute() has returned Ok(()) at '@' with the text of n! and one space
\* as the whole output.
FactorialDone(n) ==
    /\ source = Factorial /\ result = "Ok" /\ curr_char = AT
    /\ output_handle = NatDigits(Factorial_Of(n)) \o <<SPACE>>
    /\ n = 5 => output_handle = Text(<<"1", "2", "0", " ">>)

\* C32: the factorial program of test_factorial, run from the default
\* start with one input line holding n, 1 <= n <= 5, comes to return
\* Ok(()) at '@' with the decimal text of n! and one space as its output.
C32_Factorial ==
    \A n \in 1..5 : FactorialStarts(n) ~> FactorialDone(n)

C32_Witness ==
    /\ source = Factorial /\ DefaultStart /\ result = "Ok" /\ curr_char = AT
    /\ output_handle = Text(<<"1", "2", "0", " ">>) /\ input_handle = << >>

\* C33: the process exits with status 0 exactly when the program ran to
\* '@' and execute() returned Ok(()) or the help or version text was
\* displayed, and with status 1 in every other case; a file rejected for
\* its path or its extension is never given to an interpreter.
C33_ExitStatus ==
    (invocation # "Library" /\ main # -1)
        => /\ main = 0 <=> \/ invocation = "Run" /\ result = "Ok" /\ curr_char = AT
                           \/ invocation \in {"Help", "Version"}
           /\ main # 0 => main = 1
           /\ invocation \in EarlyReturns
                => ~constructed /\ stack = << >> /\ output_handle = << >>
           /\ invocation \in EarlyReturns \ {"Help", "Version"} => main = 1

\* The instructions whose crashes are those of the arithmetic.
Arithmetic == {C_ADD, C_SUB, C_MUL, C_DIV, C_REM}

\* C34: no step indexes the rows or columns outside the grid: every fetch
\* of a run is made at a cell of the grid, 'g' and 'p' (with a legal value)
\* at the first column or row past the grid fail with a BoundsError as at
\* any other coordinate outside, and no step other than an arithmetic one
\* ends in a crash.
C34_NoIndexOutside ==
    [][/\ Looping => InGrid(I64(Position.x), I64(Position.y))
       /\ Looping => get_next_character(playfield).res = "Ok"
       /\ Dispatching(C_GET)
            => LET y == FromTop(stack, 1)
                   x == FromTop(stack, 2)
               IN  (x = I64(Width) \/ y = I64(Height) \/ ~InGrid(x, y))
                        => result' = "BoundsError"
       /\ Dispatching(C_PUT)
            => LET y == FromTop(stack, 1)
                   x == FromTop(stack, 2)
                   v == FromTop(stack, 3)
               IN  (Legal(v) /\ (x = I64(Width) \/ y = I64(Height) \/ ~InGrid(x, y)))
                        => result' = "BoundsError"
       /\ (InLoop /\ ~(Fetched /\ mode = "Command" /\ curr_char \in Arithmetic))
            => result' # "Panic"]_vars

\* C35: an arithmetic instruction has two outcomes only, whatever a (popped
\* first) and b are: '/' and '%' with a = 0 fail with a DivisionError, and
\* in every other case the instruction goes on with one 64-bit value
\* pushed in place of its operands; the step is never a crash, neither for
\* b = -2^63 with a = -1 nor for a result outside the 64-bit range.
C35_TwoOutcomes ==
    [][(Fetched /\ mode = "Command" /\ curr_char \in Arithmetic)
        => LET a == FromTop(stack, 1)
           IN  IF curr_char \in {C_DIV, C_REM} /\ a = I64(0)
               THEN result' = "DivisionError"
               ELSE /\ result' = "Running"
                    /\ Len(stack') = Len(BelowOperands(2)) + 1
                    /\ Rest(stack', 1) = BelowOperands(2)
                    /\ InRange(FromTop(stack', 1).hi, FromTop(stack', 1).lo)]_vars

\* C36: a step that ends in a failure leaves the playfield (position,
\* direction and grid), the mode and the output as they were when the cell
\* was fetched, so that the character at the position is still the failing
\* instruction; of the interpreter's own state only the stack has changed,
\* and it has lost exactly the operands the instruction pops.
C36_FailureFrame ==
    [][(Fetched /\ result' \in Failures)
        => /\ playfield' = playfield
           /\ get_next_character(playfield').ch = curr_char
           /\ mode' = mode /\ mode = "Command"
           /\ output_handle' = output_handle
           /\ stack' = IF curr_char \in Consuming
                       THEN BelowOperands(Arity(curr_char)) ELSE stack]_vars

\* 'p' of the value 256 has failed: the three operands are popped and the
\* position is the one of 'p'.
C36_Witness ==
    /\ source = Put /\ result = "RangeError" /\ Position = Coord(3, 0)
    /\ stack = << >> /\ input_handle = << >> /\ curr_char = C_PUT

\* What 'g' yields at the cell (cx,cy) of the playfield pf.
GetAt(pf, cx, cy) == get_character_at(pf, [x |-> I64(cx), y |-> I64(cy)])

\* C37: after a 'p' of v at the cell (x,y) that goes on, 'g' at (x,y)
\* yields v and 'g' at every other cell what it yielded before; no other
\* step changes what 'g' yields at any cell, so the value stays until the
\* next 'p' there; a 'g' that goes on pushes what the grid holds at its
\* cell, and the character the pointer fetches at a cell is the one 'g'
\* yields there.  So 7 7 * 0 0 p 0 0 g . writes "49 ", with 'g' at (1,0) it
\* writes "55 ", after a second 'p' of 64 at the cell it writes "64 ", and
\* a '@' written on the pointer's way ends the run.
C37_RoundTrip ==
    /\ [][/\ PutGoesOn
                => \A cx \in 0..(Width - 1), cy \in 0..(Height - 1) :
                        GetAt(playfield', cx, cy) =
                            IF I64(cx) = FromTop(stack, 2) /\ I64(cy) = FromTop(stack, 1)
                            THEN [res |-> "Ok", ch |-> FromTop(stack, 3).lo]
                            ELSE GetAt(playfield, cx, cy)
          /\ (InLoop /\ ~PutGoesOn)
                => \A cx \in 0..(Width - 1), cy \in 0..(Height - 1) :
                        GetAt(playfield', cx, cy) = GetAt(playfield, cx, cy)
          /\ (Dispatching(C_GET) /\ result' = "Running")
                => FromTop(stack', 1) =
                        I64(GetAt(playfield, FromTop(stack, 2).lo, FromTop(stack, 1).lo).ch)
          /\ Fetched => GetAt(playfield, Position.x, Position.y) = [res |-> "Ok", ch |-> curr_char]
         ]_vars
    /\ [](/\ (source = SameCell /\ Ended) => output_handle = Text(<<"4", "9", " ">>)
          /\ (source = OtherCell /\ Ended) => output_handle = Text(<<"5", "5", " ">>)
          /\ (source = WrittenTwice /\ Ended) => output_handle = Text(<<"6", "4", " ">>)
          /\ (source = FetchWritten /\ Ended) => result = "Ok" /\ Position = Coord(9, 0))

\* 49 was written at (0,0), read back and printed.
C37_Witness ==
    /\ source = SameCell /\ result = "Ok" /\ output_handle = Text(<<"4", "9", " ">>)
    /\ playfield.code_map[1][1] = 49

\* The interpreter's state after the step.
SelfAfter ==
    [playfield |-> playfield', stack |-> stack', output_handle |-> output_handle',
     input_handle |-> input_handle', mode |-> mode']

MagnitudeLess(r, a) ==
    IF IsNegative(a)
    THEN Greater(r, a) /\ (a = I64_MIN \/ Greater(SubI64(I64(0), a).v, r))
    ELSE Greater(a, r) /\ Greater(r, SubI64(I64(0), a).v)

\* C39: for a # 0 popped first and b second, other than b = -2^63 with
\* a = -1, '/' goes on with the quotient q pushed and '%' with the
\* remainder r, where b = q * a + r in 64-bit arithmetic without overflow,
\* |r| < |a| and r is 0 or has the sign of b, so that q is b / a rounded
\* toward zero: 7 / 2 is 3, 6 % 4 is 2, -7 / 2 is -3 and -7 % 2 is -1.
C39_Division ==
    [][(/\ Fetched /\ mode = "Command" /\ curr_char \in {C_DIV, C_REM}
        /\ FromTop(stack, 1) # I64(0)
        /\ ~(FromTop(stack, 2) = I64_MIN /\ FromTop(stack, 1) = I64(-1)))
        => LET a == FromTop(stack, 1)
               b == FromTop(stack, 2)
               q == DivI64(b, a).v
               r == RemI64(b, a).v
               product == MulI64(q, a)
               back == AddI64(product.v, r)
           IN  /\ result' = "Running"
               /\ stack' = Append(BelowOperands(2), IF curr_char = C_DIV THEN q ELSE r)
               /\ InModel(q) => (~product.ovf /\ ~back.ovf /\ back.v = b)
               /\ MagnitudeLess(r, a)
               /\ r = I64(0) \/ (IsNegative(r) <=> IsNegative(b))
               /\ (a.hi = 0 /\ b.hi = 0)
                    => /\ q.hi = 0 /\ r.hi = 0
                       /\ b.lo = q.lo * a.lo + r.lo
                       /\ Abs(r.lo) < Abs(a.lo)
                       /\ r.lo * b.lo >= 0
               /\ (b = I64(7) /\ a = I64(2)) => (q = I64(3) /\ r = I64(1))
               /\ (b = I64(6) /\ a = I64(4)) => (q = I64(1) /\ r = I64(2))
               /\ (b = I64(-7) /\ a = I64(2)) => (q = I64(-3) /\ r = I64(-1))]_vars

\* -7 / 2 has pushed -3.
C39_Witness ==
    /\ source = <<C_INNUM, C_INNUM, C_DIV, AT>> /\ result = "Ok"
    /\ stack = <<I64(-3)>> /\ input_handle = << >>

\* C40: a step that dispatches '&' or '~' takes exactly the first line that
\* is left off the input, whether it goes on or fails (nothing at the end
\* of the input), and every other step, in any mode, leaves the input as
\* it is: the k-th input instruction of a run reads the k-th line.  So
\* & ~ & on the lines 1, a, 2 ends with 1, 97 and 2 on the stack, and with
\* an empty second line '~' fails having read that line and no further.
C40_InputOrder ==
    /\ [][/\ (Dispatching(C_INNUM) \/ Dispatching(C_INCHAR))
                => /\ input_handle' = SubSeq(input_handle, LineEnd(input_handle) + 1,
                                             Len(input_handle))
                   /\ result' \in {"Running", "ParseError"}
                   /\ input_handle = << >> => result' = "ParseError"
          /\ ~(Dispatching(C_INNUM) \/ Dispatching(C_INCHAR))
                => input_handle' = input_handle]_vars
    /\ [](/\ (source = Mixed /\ result = "Ok")
                => stack = <<I64(1), I64(97), I64(2)>> /\ input_handle = << >>
          /\ (source = Mixed /\ result = "ParseError")
                => /\ stack = <<I64(1)>> /\ curr_char = C_INCHAR
                   /\ input_handle = Text(<<"2", "\n", "b", "\n">>))

\* '~' has failed on the empty second line; the third and fourth are unread.
C40_Witness ==
    /\ source = Mixed /\ result = "ParseError" /\ Position = Coord(1, 0)
    /\ input_handle = Text(<<"2", "\n", "b", "\n">>)

====
